---- MODULE Spec2Model ----
(***************************************************************************)
(* Model of the OpenShift MCP tool servers and of the query classifier of  *)
(* the host clients.                                                       *)
(*                                                                         *)
(*   server = "main" : src/openshift_mcp_server.py (handle_call_tool)      *)
(*   server = "llm"  : src/old/openshift_mcp_server_with_llm.py            *)
(*                     (EnhancedOpenShiftMCPServer.call_tool)              *)
(*                                                                         *)
(* Both servers keep one module-global `cluster` (None or an               *)
(* OpenShiftCluster object of src/openshift_cluster.py).  A handle is      *)
(* modelled by the ordinal of its construction; 0 is None.                 *)
(***************************************************************************)
EXTENDS Naturals, Sequences, FiniteSets, TLC

VARIABLES
    server,            \* which server program runs
    cluster,           \* the global `cluster`: 0 = None, n > 0 = n-th object
    handles,           \* number of OpenShiftCluster objects constructed
    providers,         \* llm_manager.providers (its keys)
    default_provider,  \* llm_manager.default_provider ("None" when unset)
    req,               \* the last tool invocation and the outcomes of the
                       \* external calls it met: [name, args, api, llm]
    res,               \* what call_tool returned for req
    calls,             \* gateway calls made by the last invocation
    llmCalls,          \* vendor SDK calls made by the last invocation
    llmResponse,       \* the LLMResponse llm_manager.generate_response
                       \* returned in the last invocation (NoResponse: it
                       \* was not called); its provider is the one chosen,
                       \* "none" when there was none to choose
    raised,            \* TRUE iff an exception left call_tool
    scaleCalls,        \* scale_deployment calls the gateway has received
                       \* since the server started
    query,             \* classifier: the text handed to process_user_query
    host,              \* classifier: which host program runs
    hostCreds,         \* classifier: the host's environment holds the
                       \* cluster URL and the token
    sent,              \* classifier: the tool call the host issued
    conversation_history, \* the host's interaction log
    replState,         \* interactive_mode: "reading" at input(), "exited"
                       \* after the loop ("idle": no loop runs)
    lastInput,         \* interactive_mode: the input of the last iteration
                       \* and how its processing went ("ok"; "error": a
                       \* failure came back as a text; "raise": an
                       \* exception was raised)
    shown,             \* interactive_mode: what the last iteration
                       \* displayed of the history
    is_connected,      \* EnhancedOpenShiftMCPClient.is_connected
    session,           \* EnhancedOpenShiftMCPClient.session: "none" for
                       \* None, "set" for a ClientSession
    transport,         \* the stdio transport under the session: "none"
                       \* before stdio_client is entered, "open" inside
                       \* its async with block, "closed" after the block
    toolResult,        \* the ToolResult of the last execute_tool
    mcpOp,             \* the last client call and what happened in it
    podList,           \* get_resource_usage: the pods the API lists, each
                       \* the sequence of its containers' resources
    usageCall,         \* get_resource_usage: "none" before the call, then
                       \* the outcome of the API call ("items", "raise")
    usage_info,        \* get_resource_usage: what it returned
    server_process,    \* line-protocol client: self.server_process,
                       \* "none" for None, else the Popen's process
                       \* "alive" or "dead"
    foreignServer,     \* line-protocol client: pgrep finds a server the
                       \* client did not start
    started,           \* line-protocol client: what start_server
                       \* returned, "True" or "False" ("none": not
                       \* called yet)
    stdoutLines,       \* line-protocol client: the response lines in the
                       \* server's stdout pipe, oldest first
    requestsSent,      \* line-protocol client: messages written so far
    toolReply,         \* line-protocol client: the last execute_mcp_tool,
                       \* its request and what it returned
    tasks,             \* event loop: the tool invocations in flight, each
                       \* with its position in its handler
    refused            \* the followed tool the server last answered
                       \* "not connected" for ("": none yet)

serverVars == <<server, cluster, handles, providers, default_provider,
                req, res, calls, llmCalls, llmResponse, raised,
                scaleCalls>>
replVars == <<replState, lastInput, shown>>
mcpVars == <<is_connected, session, transport, toolResult, mcpOp>>
usageVars == <<podList, usageCall, usage_info>>
\* The variables of the sub-models other than the MCP client's.
pipeVars == <<server_process, foreignServer, started, stdoutLines,
              requestsSent, toolReply>>
besidesMcp == <<usageVars, pipeVars, tasks>>
auxVars == <<mcpVars, besidesMcp>>
clientVars ==
    <<query, host, hostCreds, sent, conversation_history, replVars, auxVars>>
vars == <<serverVars, clientVars, refused>>

None == "None"

\* Most handles one run constructs (connect_cluster is disabled beyond it).
MaxHandles == 3

\* Most scale_deployment calls the gateway receives in one run.
MaxScaleCalls == 2

----------------------------------------------------------------------------
(* Tool registries and argument bags                                       *)

\* Names returned by handle_list_tools of the main server.
MainListedTools ==
    {"connect_cluster", "list_namespaces", "list_applications", "list_pods",
     "list_services", "list_routes", "get_pod_logs", "describe_resource",
     "get_namespace_info", "list_configmaps", "list_secrets",
     "scale_deployment", "restart_deployment", "get_cluster_health",
     "get_resource_usage"}

\* Names returned by list_tools of the LLM server.
LlmListedTools ==
    {"connect_cluster", "list_namespaces", "list_applications", "list_pods",
     "list_services", "list_routes", "list_configmaps", "list_secrets",
     "get_pod_logs", "get_resource_usage", "scale_deployment", "delete_pod",
     "create_namespace", "delete_namespace", "ask_llm", "get_llm_providers",
     "test_llm_connection", "intelligent_cluster_analysis",
     "get_troubleshooting_help"}

ListedTools(s) == IF s = "main" THEN MainListedTools ELSE LlmListedTools

\* The "required" list of each tool's inputSchema, in schema order.
RequiredArgs(s, name) ==
    CASE name = "connect_cluster" -> <<"cluster_url", "token">>
      [] name \in {"list_applications", "list_pods", "list_services",
                   "list_routes", "list_configmaps", "list_secrets",
                   "get_resource_usage", "get_namespace_info"}
                                  -> <<"namespace">>
      [] name \in {"get_pod_logs", "delete_pod"}
                                  -> <<"namespace", "pod_name">>
      [] name = "describe_resource"
                     -> <<"namespace", "resource_type", "resource_name">>
      [] name = "scale_deployment"
                     -> <<"namespace", "deployment_name", "replicas">>
      [] name = "restart_deployment" -> <<"namespace", "deployment_name">>
      [] name \in {"create_namespace", "delete_namespace"} -> <<"name">>
      [] name = "ask_llm" -> <<"question">>
      [] name = "get_troubleshooting_help" -> <<"issue_description">>
      [] OTHER -> <<>>

\* Optional keys a handler reads to choose its path.
OptionalArgs(s, name) ==
    CASE name \in {"ask_llm", "test_llm_connection",
                   "get_troubleshooting_help"} -> {"provider"}
      [] name = "intelligent_cluster_analysis" -> {"namespace", "provider"}
      [] OTHER -> {}

Range(seq) == {seq[i] : i \in 1..Len(seq)}

\* A name no registry lists, and a name only the other server lists.
UnknownNames == {"no_such_tool", "list_nodes"}
ToolNames == MainListedTools \cup LlmListedTools \cup UnknownNames

ProviderNames == {"gemini", "openai", "claude", "custom"}
\* Values an argument is drawn from: a provider name (configured or not);
\* an empty and a non-empty value for the keys whose truthiness a handler
\* tests alone; a non-empty value for the rest.
ValuesOf(k) ==
    IF k = "provider" THEN {"gemini", "claude", "bogus"}
    ELSE IF k \in {"namespace", "question", "replicas", "token", "name",
                   "issue_description"}
    THEN {"", "v"}
    ELSE {"v"}
AllValues == {"", "v", "gemini", "claude", "bogus"}

\* Keys an argument bag for `name` is drawn over ("other" is a key no
\* schema names).
BagKeys(name) ==
    Range(RequiredArgs("main", name)) \cup OptionalArgs("llm", name)
        \cup (IF name \in UnknownNames THEN {"namespace"} ELSE {})

ArgBags(name) ==
    UNION { {f \in [S -> AllValues] : \A k \in S : f[k] \in ValuesOf(k)}
            : S \in SUBSET BagKeys(name) }

Has(args, k) == k \in DOMAIN args
\* arguments.get(k)
Get(args, k) == IF Has(args, k) THEN args[k] ELSE None
\* Python truthiness of an argument value
Truthy(v) == v \notin {None, ""}

----------------------------------------------------------------------------
(* Results.  kind "ok"/"error" is what call_tool returns (for the main     *)
(* server an "error" is a text that says Error, for the LLM server a dict  *)
(* with an "error" key); kind "raise" is an exception in flight.  keys is  *)
(* the set of argument keys and tool names the text mentions, exc the      *)
(* exception whose str() the text carries.                                 *)

Ok(code) == [kind |-> "ok", code |-> code, keys |-> {}, exc |-> None]
OkText(code, exc) == [kind |-> "ok", code |-> code, keys |-> {}, exc |-> exc]
Err(code, keys, exc) ==
    [kind |-> "error", code |-> code, keys |-> keys, exc |-> exc]
Raise(cls, keys, exc) ==
    [kind |-> "raise", code |-> cls, keys |-> keys, exc |-> exc]
NoResult == [kind |-> "none", code |-> "", keys |-> {}, exc |-> None]

\* What one handler run did: its outcome, the global `cluster` after it,
\* the constructions so far, the gateway and vendor calls it made.
NoResponse == [content |-> "", provider |-> None, error |-> None]
Effect(out, cl, hs, cs, lc) ==
    [out |-> out, cluster |-> cl, handles |-> hs, calls |-> cs, llm |-> lc,
     response |-> NoResponse]

----------------------------------------------------------------------------
(* ClusterGateway: class OpenShiftCluster                                  *)

\* Outcomes of the cluster API call under a gateway method.
ApiOutcomes == {"items", "empty", "raise"}

\* Positional parameters of OpenShiftCluster.__init__ after self.
ClusterInitArity == 2

\* Methods class OpenShiftCluster defines.
ClusterMethods ==
    {"list_namespaces", "list_applications", "list_pods", "list_services",
     "get_pod_logs", "describe_resource", "get_namespace_info",
     "list_routes", "list_configmaps", "list_secrets", "scale_deployment",
     "restart_deployment", "get_cluster_health", "get_resource_usage"}

ListMethods ==
    {"list_namespaces", "list_applications", "list_pods", "list_services",
     "list_routes", "list_configmaps", "list_secrets"}

\* What a gateway method returns: every method catches the API exception;
\* the list methods return [], get_pod_logs a text, the rest a dict.
ClusterReturn(op, api) ==
    IF op \in ListMethods
    THEN [t |-> IF api = "items" THEN "items" ELSE "empty", exc |-> None]
    ELSE IF op = "get_pod_logs"
    THEN IF api = "raise" THEN [t |-> "text", exc |-> "ApiException"]
                          ELSE [t |-> "text", exc |-> None]
    ELSE IF api = "raise" THEN [t |-> "errdict", exc |-> "ApiException"]
                          ELSE [t |-> "data", exc |-> None]

\* OpenShiftCluster(...) with nargs positional arguments: TypeError unless
\* the arity fits, else _connect, which re-raises what the client raises.
ClusterInit(nargs, api) ==
    IF nargs # ClusterInitArity THEN Raise("TypeError", {}, "TypeError")
    ELSE IF api = "raise" THEN Raise("Exception", {}, "ApiException")
    ELSE Ok("constructed")

Call(h, op) == [h |-> h, op |-> op]

----------------------------------------------------------------------------
(* Main server: src/openshift_mcp_server.py                                *)

\* The first key of `required` that `args` lacks ("None" if it has all):
\* arguments[k] raises KeyError(k) at the first such k.
FirstMissing(args, required) ==
    LET missing == {i \in 1..Len(required) : ~Has(args, required[i])}
    IN  IF missing = {} THEN None
        ELSE required[CHOOSE i \in missing : \A j \in missing : i <= j]

\* The branches without the one for restart_deployment.
MainBranches_OneLess ==
    {"connect_cluster", "list_namespaces", "list_applications", "list_pods",
     "list_services", "list_routes", "get_pod_logs", "describe_resource",
     "get_namespace_info", "list_configmaps", "list_secrets",
     "scale_deployment", "get_cluster_health", "get_resource_usage"}

\* Names for which handle_call_tool has an if/elif branch.
MainBranches ==
    {"connect_cluster", "list_namespaces", "list_applications", "list_pods",
     "list_services", "list_routes", "get_pod_logs", "describe_resource",
     "get_namespace_info", "list_configmaps", "list_secrets",
     "scale_deployment", "restart_deployment", "get_cluster_health",
     "get_resource_usage"}

\* The text a branch builds from what the gateway returned.
MainFormat(name, ret) ==
    IF name \in ListMethods
    THEN IF ret.t = "items" THEN Ok("listing")
         ELSE Ok("none_found_or_error_occurred")
    ELSE IF name = "get_pod_logs" THEN OkText("logs", ret.exc)
    ELSE IF name = "describe_resource" THEN OkText("description", ret.exc)
    ELSE IF ret.t = "errdict" THEN Err("gateway_error", {}, ret.exc)
    \* the report is built with self._format_memory inside a function that
    \* has no self
    ELSE IF name = "get_resource_usage"
    THEN Raise("NameError", {}, "NameError")
    ELSE Ok("report")

\* A connect_cluster branch that keeps a handle it already has.
MainConnect_KeepFirst(args, api, cl, hs) ==
    LET m == FirstMissing(args, <<"cluster_url", "token">>)
        c == ClusterInit(2, api)
    IN  IF m # None
        THEN Effect(Raise("KeyError", {m}, "KeyError"), cl, hs, <<>>, 0)
        ELSE IF c.kind = "raise"
        THEN Effect(c, cl, hs, <<Call(0, "__init__")>>, 0)
        ELSE Effect(Ok("connected"), IF cl = 0 THEN hs + 1 ELSE cl, hs + 1,
                    <<Call(hs + 1, "__init__")>>, 0)

\* A connect_cluster branch that answers "connected" and keeps the old
\* global.
MainConnect_NoInstall(args, api, cl, hs) ==
    LET m == FirstMissing(args, <<"cluster_url", "token">>)
        c == ClusterInit(2, api)
    IN  IF m # None
        THEN Effect(Raise("KeyError", {m}, "KeyError"), cl, hs, <<>>, 0)
        ELSE IF c.kind = "raise"
        THEN Effect(c, cl, hs, <<Call(0, "__init__")>>, 0)
        ELSE Effect(Ok("connected"), cl, hs + 1,
                    <<Call(hs + 1, "__init__")>>, 0)

\* A connect_cluster branch that clears the global before it constructs.
MainConnect_ClearsFirst(args, api, cl, hs) ==
    LET m == FirstMissing(args, <<"cluster_url", "token">>)
        c == ClusterInit(2, api)
    IN  IF m # None
        THEN Effect(Raise("KeyError", {m}, "KeyError"), cl, hs, <<>>, 0)
        ELSE IF c.kind = "raise"
        THEN Effect(c, 0, hs, <<Call(0, "__init__")>>, 0)
        ELSE Effect(Ok("connected"), hs + 1, hs + 1,
                    <<Call(hs + 1, "__init__")>>, 0)

\* The connect_cluster branch.
MainConnect(args, api, cl, hs) ==
    LET m == FirstMissing(args, <<"cluster_url", "token">>)
        c == ClusterInit(2, api)
    IN  IF m # None
        THEN Effect(Raise("KeyError", {m}, "KeyError"), cl, hs, <<>>, 0)
        ELSE IF c.kind = "raise"
        THEN Effect(c, cl, hs, <<Call(0, "__init__")>>, 0)
        ELSE Effect(Ok("connected"), hs + 1, hs + 1,
                    <<Call(hs + 1, "__init__")>>, 0)

\* A branch that reads its arguments before it tests the connection.
MainClusterTool_ArgsFirst(name, args, api, cl, hs) ==
    LET m == FirstMissing(args, RequiredArgs("main", name))
    IN  IF m # None
        THEN Effect(Raise("KeyError", {m}, "KeyError"), cl, hs, <<>>, 0)
        ELSE IF cl = 0
        THEN Effect(Err("not_connected", {}, None), cl, hs, <<>>, 0)
        ELSE Effect(MainFormat(name, ClusterReturn(name, api)), cl, hs,
                    <<Call(cl, name)>>, 0)

\* A dispatcher that answers scale_deployment without asking the gateway.
MainClusterTool_Cached(name, args, api, cl, hs) ==
    LET m == FirstMissing(args, RequiredArgs("main", name))
    IN  IF cl = 0
        THEN Effect(Err("not_connected", {}, None), cl, hs, <<>>, 0)
        ELSE IF m # None
        THEN Effect(Raise("KeyError", {m}, "KeyError"), cl, hs, <<>>, 0)
        ELSE IF name = "scale_deployment"
        THEN Effect(Ok("report"), cl, hs, <<>>, 0)
        ELSE Effect(MainFormat(name, ClusterReturn(name, api)), cl, hs,
                    <<Call(cl, name)>>, 0)

\* A branch of a tool that needs the cluster.
MainClusterTool(name, args, api, cl, hs) ==
    LET m == FirstMissing(args, RequiredArgs("main", name))
    IN  IF cl = 0
        THEN Effect(Err("not_connected", {}, None), cl, hs, <<>>, 0)
        ELSE IF m # None
        THEN Effect(Raise("KeyError", {m}, "KeyError"), cl, hs, <<>>, 0)
        ELSE Effect(MainFormat(name, ClusterReturn(name, api)), cl, hs,
                    <<Call(cl, name)>>, 0)

\* The try block of handle_call_tool.
MainTry(name, args, api, cl, hs) ==
    IF name \notin MainBranches
    THEN Effect(Err("unknown_tool", {name}, None), cl, hs, <<>>, 0)
    ELSE IF name = "connect_cluster" THEN MainConnect(args, api, cl, hs)
    ELSE MainClusterTool(name, args, api, cl, hs)

\* An except clause that answers with a fixed text.
MainExcept_FixedText(name, e) ==
    IF e.out.kind = "raise"
    THEN [e EXCEPT !.out = Err("exception", {name}, None)]
    ELSE e

\* A handler without the except clause.
MainExcept_Absent(name, e) == e

\* except Exception as e: the text names the tool and carries str(e).
MainExcept(name, e) ==
    IF e.out.kind = "raise"
    THEN [e EXCEPT !.out = Err("exception", {name} \cup e.out.keys,
                               e.out.exc)]
    ELSE e

handle_call_tool(name, args, api, cl, hs) ==
    MainExcept(name, MainTry(name, args, api, cl, hs))

----------------------------------------------------------------------------
(* LLMGateway: src/old/llm_integration.py                                  *)

\* Outcomes of a vendor SDK call: a text, an exception with a message, an
\* exception whose str() is empty.
LlmOutcomes == {"ok", "raise", "raise_blank"}

\* LLMManager.setup_providers, from the API keys present in the
\* environment: the providers map, and the default it designates.
SetupProviders(env) == env \cap ProviderNames
\* A setup that designates gemini whatever the environment holds.
SetupDefault_Fixed(env) == "gemini"
SetupDefault(env) == IF "gemini" \in env THEN "gemini" ELSE None

\* A provider that reports the error beside a text.
ProviderGenerate_KeepsContent(p, llm) ==
    [content |-> "text", provider |-> p,
     error |-> IF llm = "ok" THEN None
               ELSE IF llm = "raise" THEN "SdkError" ELSE "", vendor |-> 1]

\* A provider's generate_response: one vendor call; an exception becomes
\* the error field.
ProviderGenerate(p, llm) ==
    IF llm = "ok"
    THEN [content |-> "text", provider |-> p, error |-> None, vendor |-> 1]
    ELSE [content |-> "", provider |-> p,
          error |-> IF llm = "raise" THEN "SdkError" ELSE "", vendor |-> 1]

\* A manager that prefers its default to the provider asked for.
ManagerGenerate_DefaultFirst(provider, provs, dflt, llm) ==
    IF Truthy(dflt) THEN ProviderGenerate(dflt, llm)
    ELSE IF Truthy(provider) /\ provider \in provs
    THEN ProviderGenerate(provider, llm)
    ELSE [content |-> "", provider |-> "none",
          error |-> "No LLM provider available", vendor |-> 0]

\* LLMManager.generate_response(prompt, context, provider).
ManagerGenerate(provider, provs, dflt, llm) ==
    IF Truthy(provider) /\ provider \in provs
    THEN ProviderGenerate(provider, llm)
    ELSE IF Truthy(dflt) THEN ProviderGenerate(dflt, llm)
    ELSE [content |-> "", provider |-> "none",
          error |-> "No LLM provider available", vendor |-> 0]

----------------------------------------------------------------------------
(* LLM server: src/old/openshift_mcp_server_with_llm.py                    *)

NotConnected(cl, hs) ==
    Effect(Err("not_connected", {}, None), cl, hs, <<>>, 0)

\* cluster.<op>(...): AttributeError when the class has no such method.
LlmGateway(op, api, cl, hs) ==
    IF op \notin ClusterMethods
    THEN Effect(Raise("AttributeError", {op}, "AttributeError"),
                cl, hs, <<>>, 0)
    ELSE LET ret == ClusterReturn(op, api)
         IN  Effect(OkText(ret.t, ret.exc), cl, hs, <<Call(cl, op)>>, 0)

_handle_connect_cluster(args, api, cl, hs) ==
    LET c == ClusterInit(3, api)
    IN  IF ~Truthy(Get(args, "cluster_url")) \/ ~Truthy(Get(args, "token"))
        THEN Effect(Err("required", {"cluster_url", "token"}, None),
                    cl, hs, <<>>, 0)
        ELSE IF c.kind = "raise" /\ c.code = "TypeError"
        THEN Effect(c, cl, hs, <<>>, 0)
        ELSE IF c.kind = "raise"
        THEN Effect(c, cl, hs, <<Call(0, "__init__")>>, 0)
        ELSE Effect(Ok("connected"), hs + 1, hs + 1,
                    <<Call(hs + 1, "__init__")>>, 0)

\* _handle_list_namespaces .. _handle_delete_namespace: the connected
\* check, then the required arguments, then the gateway call.
LlmClusterTool(name, args, api, cl, hs) ==
    LET required == Range(RequiredArgs("llm", name))
        absent(k) == IF k = "replicas" THEN Get(args, k) = None
                     ELSE ~Truthy(Get(args, k))
    IN  IF cl = 0 THEN NotConnected(cl, hs)
        ELSE IF \E k \in required : absent(k)
        THEN Effect(Err("required", required, None), cl, hs, <<>>, 0)
        ELSE LlmGateway(name, api, cl, hs)

\* The tool result built from an LLMResponse r.
LlmAnswer(r, failCode, okCode) ==
    IF Truthy(r.error) THEN Err(failCode, {}, r.error)
    ELSE [kind |-> "ok", code |-> okCode, keys |-> {},
          exc |-> IF r.error = "" THEN "blank" ELSE None]

\* The effect of a handler that got r from llm_manager.generate_response.
Generated(e, r) ==
    [e EXCEPT !.response = [content |-> r.content, provider |-> r.provider,
                            error |-> r.error]]

_handle_ask_llm(args, llm, cl, hs, provs, dflt) ==
    LET r == ManagerGenerate(Get(args, "provider"), provs, dflt, llm)
    IN  IF ~Truthy(Get(args, "question"))
        THEN Effect(Err("required", {"question"}, None), cl, hs, <<>>, 0)
        ELSE Generated(Effect(LlmAnswer(r, "llm_error", "response"),
                              cl, hs, <<>>, r.vendor), r)

_handle_get_llm_providers(cl, hs) ==
    Effect(Ok("providers"), cl, hs, <<>>, 0)

_handle_test_llm_connection(args, cl, hs, provs) ==
    LET p == Get(args, "provider")
    IN  IF Truthy(p)
        THEN IF p \in provs
             THEN Effect(Ok("status"), cl, hs, <<>>, 1)
             ELSE Effect(Err("provider_not_found", {p}, None),
                         cl, hs, <<>>, 0)
        ELSE Effect(Ok("connection_results"), cl, hs, <<>>,
                    Cardinality(provs))

\* The calls that gather the cluster snapshot, in the order they are made.
Gathering(args, cl) ==
    IF Truthy(Get(args, "namespace"))
    THEN <<Call(cl, "list_namespaces"), Call(cl, "list_pods"),
           Call(cl, "list_services"), Call(cl, "list_routes")>>
    ELSE <<Call(cl, "list_namespaces")>>

\* The calls made until the call to `failing` raises (all of them when no
\* call raises), and whether one raised.
UpTo(cs, failing) ==
    LET at == {i \in 1..Len(cs) : cs[i].op = failing}
    IN  IF at = {} THEN cs
        ELSE SubSeq(cs, 1, CHOOSE i \in at : \A j \in at : i <= j)
Fails(cs, failing) == \E i \in 1..Len(cs) : cs[i].op = failing

\* An analysis whose gathering is outside its try block.
_handle_intelligent_cluster_analysis_NoExcept(args, failing, llm, cl, hs, provs, dflt) ==
    LET r == ManagerGenerate(Get(args, "provider"), provs, dflt, llm)
        gathered == Gathering(args, cl)
    IN  IF cl = 0 THEN NotConnected(cl, hs)
        ELSE IF Fails(gathered, failing)
        THEN Effect(Raise("Exception", {}, "GatewayError"), cl, hs,
                    UpTo(gathered, failing), 0)
        ELSE Generated(Effect(LlmAnswer(r, "llm_analysis_failed",
                                        "analysis"),
                              cl, hs, gathered, r.vendor), r)

\* `failing` is the gathering call that raises (None when none does): the
\* try block holds the gathering and the LLM call, and its except answers
\* "Failed to gather cluster information: ...".
_handle_intelligent_cluster_analysis(args, failing, llm, cl, hs, provs, dflt) ==
    LET r == ManagerGenerate(Get(args, "provider"), provs, dflt, llm)
        gathered == Gathering(args, cl)
    IN  IF cl = 0 THEN NotConnected(cl, hs)
        ELSE IF Fails(gathered, failing)
        THEN Effect(Err("gather_failed", {}, "GatewayError"), cl, hs,
                    UpTo(gathered, failing), 0)
        ELSE Generated(Effect(LlmAnswer(r, "llm_analysis_failed",
                                        "analysis"),
                              cl, hs, gathered, r.vendor), r)

\* With a handle, list_namespaces is called inside try ... except:, whose
\* handler only replaces the context text; the LLM call follows either way.
_handle_get_troubleshooting_help(args, failing, llm, cl, hs, provs, dflt) ==
    LET r == ManagerGenerate(Get(args, "provider"), provs, dflt, llm)
    IN  IF ~Truthy(Get(args, "issue_description"))
        THEN Effect(Err("required", {"issue_description"}, None),
                    cl, hs, <<>>, 0)
        ELSE Generated(Effect(LlmAnswer(r, "troubleshooting_failed", "help"),
                              cl, hs,
                              IF cl = 0 THEN <<>>
                              ELSE <<Call(cl, "list_namespaces")>>,
                              r.vendor), r)

\* Names for which call_tool has an if/elif branch.
LlmClusterBranches ==
    {"list_namespaces", "list_applications", "list_pods", "list_services",
     "list_routes", "list_configmaps", "list_secrets", "get_pod_logs",
     "get_resource_usage", "scale_deployment", "delete_pod",
     "create_namespace", "delete_namespace"}
LlmBranches ==
    LlmClusterBranches \cup
    {"connect_cluster", "ask_llm", "get_llm_providers",
     "test_llm_connection", "intelligent_cluster_analysis",
     "get_troubleshooting_help"}

\* The try block of call_tool; `failing` is the gathering call that raises.
LlmTry(name, args, api, failing, llm, cl, hs, provs, dflt) ==
    CASE name = "connect_cluster" -> _handle_connect_cluster(args, api, cl, hs)
      [] name \in LlmClusterBranches ->
            LlmClusterTool(name, args, api, cl, hs)
      [] name = "ask_llm" -> _handle_ask_llm(args, llm, cl, hs, provs, dflt)
      [] name = "get_llm_providers" -> _handle_get_llm_providers(cl, hs)
      [] name = "test_llm_connection" ->
            _handle_test_llm_connection(args, cl, hs, provs)
      [] name = "intelligent_cluster_analysis" ->
            _handle_intelligent_cluster_analysis(args, failing, llm, cl, hs,
                                                 provs, dflt)
      [] name = "get_troubleshooting_help" ->
            _handle_get_troubleshooting_help(args, failing, llm, cl, hs,
                                             provs, dflt)
      [] OTHER -> Effect(Err("unknown_tool", {name}, None), cl, hs, <<>>, 0)

\* except Exception as e: return {"error": str(e)}.
LlmExcept(e) ==
    IF e.out.kind = "raise"
    THEN [e EXCEPT !.out = Err("exception", e.out.keys, e.out.exc)]
    ELSE e

\* call_tool over the gateway of src/openshift_cluster.py, whose list
\* methods return [] where the API raises: no gathering call raises.
call_tool(name, args, api, llm, cl, hs, provs, dflt) ==
    LlmExcept(LlmTry(name, args, api, None, llm, cl, hs, provs, dflt))

----------------------------------------------------------------------------
(* The servers as state machines                                           *)

\* failing: the gathering call that raises for this request (None: none).
NoRequest ==
    [name |-> "", args |-> <<>>, api |-> "items", llm |-> "ok",
     failing |-> None]
NoSent == [name |-> "", keys |-> {}, namespace |-> "", question |-> <<>>]

\* main(): auto-connect when the environment holds the URL and the token;
\* a constructor that raises is logged and leaves `cluster` None.
AutoConnect(s, creds, api) ==
    LET c == ClusterInit(IF s = "main" THEN 2 ELSE 3, api)
    IN  IF creds /\ c.kind = "ok" THEN 1 ELSE 0

\* The sets of provider API keys a run starts with.
Environments == {{}, {"gemini"}, {"claude"}, {"gemini", "claude"}}

\* The external outcomes a request can meet: the cluster API's for the tools
\* that reach the gateway, the vendor SDK's for the tools that reach the LLM.
ApiFor(name) ==
    IF name \in {"ask_llm", "get_llm_providers", "test_llm_connection"}
                \cup UnknownNames
    THEN {"items"} ELSE ApiOutcomes
LlmFor(name) ==
    IF name \in {"ask_llm", "test_llm_connection",
                 "intelligent_cluster_analysis", "get_troubleshooting_help"}
    THEN LlmOutcomes ELSE {"ok"}

ServerInit ==
    /\ server \in {"main", "llm"}
    /\ \E creds \in BOOLEAN, api \in {"items", "raise"} :
          /\ cluster = AutoConnect(server, creds, api)
          /\ handles = cluster
    /\ \E env \in Environments :
          /\ providers = IF server = "llm" THEN SetupProviders(env) ELSE {}
          /\ default_provider =
                IF server = "llm" THEN SetupDefault(env) ELSE None
    /\ req = NoRequest
    /\ res = NoResult
    /\ calls = <<>>
    /\ llmCalls = 0
    /\ llmResponse = NoResponse
    /\ raised = FALSE
    /\ scaleCalls = 0

\* No input read, nothing displayed.
NoInput == [kind |-> "", word |-> "", outcome |-> "ok"]
NotShown == [kind |-> "none", count |-> 0, records |-> <<>>]

ReplIdle ==
    /\ replState = "idle"
    /\ lastInput = NoInput
    /\ shown = NotShown

\* No ToolResult yet; no client call yet.
NoToolResult == [success |-> FALSE, data |-> None, error |-> None]
NoOp == [op |-> "", name |-> "", returned |-> FALSE, reached |-> FALSE]

\* No EnhancedOpenShiftMCPClient is in use.
McpIdle ==
    /\ is_connected = FALSE
    /\ session = "none"
    /\ transport = "none"
    /\ toolResult = NoToolResult
    /\ mcpOp = NoOp

\* get_resource_usage is not under study.
UsageIdle ==
    /\ podList = <<>>
    /\ usageCall = "none"
    /\ usage_info = <<>>

\* A request, and the response line that answers it.
Message(method, name, n) == [method |-> method, name |-> name, n |-> n]

NoMessage == Message("", "", 0)

NoReply == [request |-> NoMessage, success |-> FALSE, data |-> NoMessage,
            error |-> None]

\* No line-protocol client runs.
PipeIdle ==
    /\ server_process = "none"
    /\ foreignServer = FALSE
    /\ started = "none"
    /\ stdoutLines = <<>>
    /\ requestsSent = 0
    /\ toolReply = NoReply

\* Most tool invocations in flight at once.
MaxTasks == 2
TaskIds == 1..MaxTasks

\* A slot of the event loop with no invocation in it.
NoTask ==
    [name |-> "", args |-> <<>>, api |-> "items", state |-> "free", pc |-> 1,
     checked |-> 0, used |-> {}, overtaken |-> FALSE]

\* No invocation is in flight.
TasksIdle == tasks = [t \in TaskIds |-> NoTask]

BesidesMcpIdle == UsageIdle /\ PipeIdle /\ TasksIdle

AuxIdle == McpIdle /\ BesidesMcpIdle

\* No host program runs.
HostIdle ==
    /\ query = <<>>
    /\ host = ""
    /\ hostCreds = FALSE
    /\ sent = NoSent
    /\ conversation_history = <<>>
    /\ ReplIdle

ClientIdle == AuxIdle /\ HostIdle

Init == ServerInit /\ ClientIdle /\ refused = ""

\* The calls of cs that go to the gateway method op.
CallsOf(cs, op) == Cardinality({i \in 1..Len(cs) : cs[i].op = op})

\* The server takes the effect e of serving request r.
Serve(r, e) ==
    /\ e.handles <= MaxHandles
    /\ scaleCalls + CallsOf(e.calls, "scale_deployment") <= MaxScaleCalls
    /\ scaleCalls' = scaleCalls + CallsOf(e.calls, "scale_deployment")
    /\ req' = r
    /\ res' = IF e.out.kind = "raise" THEN NoResult ELSE e.out
    /\ raised' = (raised \/ e.out.kind = "raise")
    /\ cluster' = e.cluster
    /\ handles' = e.handles
    /\ calls' = e.calls
    /\ llmCalls' = e.llm
    /\ llmResponse' = e.response
    /\ UNCHANGED <<server, providers, default_provider>>

\* The tools whose refusals are followed, and the tool refused last after
\* a request for `name` answered with `out`.
Watched == {"list_pods"}
Refusal(name, out, before) ==
    IF out.code = "not_connected" /\ name \in Watched THEN name ELSE before

\* One tools/call request served by the main server.
MainRequest ==
    /\ server = "main"
    /\ ~raised
    /\ \E name \in ToolNames :
         \E args \in ArgBags(name), api \in ApiFor(name) :
            Serve([name |-> name, args |-> args, api |-> api, llm |-> "ok",
                   failing |-> None],
                  handle_call_tool(name, args, api, cluster, handles))
    /\ UNCHANGED clientVars

\* One tools/call request served by the LLM server.
LlmRequest ==
    /\ server = "llm"
    /\ ~raised
    /\ \E name \in ToolNames :
         \E args \in ArgBags(name), api \in ApiFor(name),
            llm \in LlmFor(name) :
            Serve([name |-> name, args |-> args, api |-> api, llm |-> llm,
                   failing |-> None],
                  call_tool(name, args, api, llm, cluster, handles,
                            providers, default_provider))
    /\ UNCHANGED clientVars

HandleCallTool == MainRequest /\ UNCHANGED refused
CallTool == LlmRequest /\ UNCHANGED refused

Next == HandleCallTool \/ CallTool

Spec == Init /\ [][Next]_vars

\* The same servers, with the refusals of the followed tool recorded.
HandleCallToolFollowed ==
    MainRequest /\ refused' = Refusal(req'.name, res', refused)
CallToolFollowed ==
    LlmRequest /\ refused' = Refusal(req'.name, res', refused)

NextFollowed == HandleCallToolFollowed \/ CallToolFollowed

\* The servers started without a provider API key.
FollowedInit == Init /\ providers = {}

SpecFollowed == FollowedInit /\ [][NextFollowed]_vars

----------------------------------------------------------------------------
(* The LLM server over the gateway it was written for.  The server calls   *)
(* OpenShiftCluster(cluster_url, token, verify_ssl) and the methods        *)
(* delete_pod, create_namespace and delete_namespace: a class other than   *)
(* the one in src/openshift_cluster.py.  Of that gateway the specification *)
(* says that connecting yields a handle and that the exception of the      *)
(* cluster call under a method is raised to the dispatcher (GatewayError). *)

\* The session has a handle or has none.
GatewayHandles == {0, 1}

\* The gathering call that raises a GatewayError, None when none does.
GatewayFailures == {None, "list_namespaces", "list_pods", "list_routes"}

\* The tools that gather a cluster snapshot for the LLM.
GatherTools == {"intelligent_cluster_analysis", "get_troubleshooting_help"}

GatherInit ==
    /\ server = "llm"
    /\ cluster \in GatewayHandles
    /\ handles = cluster
    /\ \E env \in Environments :
          /\ providers = SetupProviders(env)
          /\ default_provider = SetupDefault(env)
    /\ req = NoRequest
    /\ res = NoResult
    /\ calls = <<>>
    /\ llmCalls = 0
    /\ llmResponse = NoResponse
    /\ raised = FALSE
    /\ scaleCalls = 0
    /\ ClientIdle
    /\ refused = ""

\* One tools/call request for a gathering tool.
GatherCallTool ==
    /\ server = "llm"
    /\ ~raised
    /\ \E name \in GatherTools :
         \E args \in ArgBags(name), failing \in GatewayFailures,
            llm \in LlmOutcomes :
            Serve([name |-> name, args |-> args,
                   api |-> IF failing = None THEN "items" ELSE "raise",
                   llm |-> llm, failing |-> failing],
                  LlmExcept(LlmTry(name, args, "items", failing, llm,
                                   cluster, handles, providers,
                                   default_provider)))
    /\ UNCHANGED <<clientVars, refused>>

NextGather == GatherCallTool

SpecGather == GatherInit /\ [][NextGather]_vars

----------------------------------------------------------------------------
(* EnhancedOpenShiftMCPClient: src/mcp_client/enhanced_mcp_client.py, the  *)
(* client of the LLM server.                                               *)

ToolResult(success, data, error) ==
    [success |-> success, data |-> data, error |-> error]

\* await session.call_tool(...) over the transport tr: the server's result
\* comes back, or the call raises (the streams of a transport whose async
\* with block was left are closed; `fault`: the transport breaks).
SessionCallTool(tr, fault, result) ==
    IF tr # "open"
    THEN [kind |-> "raises", result |-> NoResult,
          exc |-> "ClosedResourceError"]
    ELSE IF fault
    THEN [kind |-> "raises", result |-> NoResult, exc |-> "McpError"]
    ELSE [kind |-> "returns", result |-> result, exc |-> None]

\* execute_tool: the connected check, then success=True around whatever
\* call_tool returned, success=False around what it raised.
execute_tool(connected, sess, outcome) ==
    IF ~connected \/ sess = "none"
    THEN ToolResult(FALSE, None, "Not connected to MCP server")
    ELSE IF outcome.kind = "returns"
    THEN ToolResult(TRUE, outcome.result, None)
    ELSE ToolResult(FALSE, None, outcome.exc)

\* What entering stdio_client and session.initialize can do.
LibraryOutcomes == {"ok", "raise"}

\* The LLM server as the client's peer: started without cluster
\* credentials.
PeerInit ==
    /\ server = "llm"
    /\ cluster = 0
    /\ handles = 0
    /\ \E env \in Environments :
          /\ providers = SetupProviders(env)
          /\ default_provider = SetupDefault(env)
    /\ req = NoRequest
    /\ res = NoResult
    /\ calls = <<>>
    /\ llmCalls = 0
    /\ llmResponse = NoResponse
    /\ raised = FALSE
    /\ scaleCalls = 0

\* __init__: no session, not connected.
McpClientInit ==
    /\ PeerInit
    /\ HostIdle
    /\ BesidesMcpIdle
    /\ refused = ""
    /\ McpIdle

\* connect(): the session is made and initialized inside
\* `async with stdio_client(params)`, and `return True` leaves that block;
\* an exception leaves it too and ends in `return False`.
McpConnect ==
    /\ \E spawn \in LibraryOutcomes, init \in LibraryOutcomes :
          /\ session' = IF spawn = "ok" THEN "set" ELSE session
          /\ transport' = IF spawn = "ok" THEN "closed" ELSE transport
          /\ is_connected' = (spawn = "ok" /\ init = "ok")
          /\ mcpOp' = [op |-> "connect", name |-> "",
                       returned |-> (spawn = "ok" /\ init = "ok"),
                       reached |-> (spawn = "ok")]
    /\ UNCHANGED <<toolResult, serverVars, query, host, hostCreds, sent,
                   conversation_history, replVars, refused,
                   besidesMcp>>

\* disconnect(): drops the session, closes nothing.
McpDisconnect ==
    /\ mcpOp.op # "disconnect"
    /\ session' = "none"
    /\ is_connected' = FALSE
    /\ mcpOp' = [op |-> "disconnect", name |-> "",
                 returned |-> TRUE, reached |-> FALSE]
    /\ UNCHANGED <<transport, toolResult, serverVars, query, host,
                   hostCreds, sent, conversation_history, replVars, refused,
                   besidesMcp>>

\* The tools OpenShiftMCPManager executes through the client.
ManagerTools ==
    {"get_llm_providers", "ask_llm", "intelligent_cluster_analysis",
     "get_troubleshooting_help", "list_namespaces", "list_pods",
     "get_pod_logs"}

\* execute_tool(name, args); the server serves the request when the call
\* reaches it.
McpExecuteTool ==
    /\ \E name \in ManagerTools :
         \E args \in ArgBags(name), llm \in LlmFor(name),
            fault \in BOOLEAN :
            LET e == call_tool(name, args, "items", llm, cluster, handles,
                               providers, default_provider)
                reaches == /\ is_connected
                           /\ session = "set"
                           /\ transport = "open"
                           /\ ~fault
                outcome == SessionCallTool(transport, fault, e.out)
            IN  /\ toolResult' = execute_tool(is_connected, session, outcome)
                /\ mcpOp' = [op |-> "execute_tool", name |-> name,
                             returned |-> TRUE,
                             reached |-> reaches]
                /\ IF reaches
                   THEN Serve([name |-> name, args |-> args,
                               api |-> "items", llm |-> llm,
                               failing |-> None], e)
                   ELSE UNCHANGED serverVars
    /\ UNCHANGED <<is_connected, session, transport, query, host, hostCreds,
                   sent, conversation_history, replVars, refused,
                   besidesMcp>>

NextMcpClient == McpConnect \/ McpDisconnect \/ McpExecuteTool

SpecMcpClient == McpClientInit /\ [][NextMcpClient]_vars

\* A client whose session runs over an open transport, as inside the
\* async with block of connect().
EnvelopeInit ==
    /\ PeerInit
    /\ HostIdle
    /\ BesidesMcpIdle
    /\ refused = ""
    /\ is_connected = TRUE
    /\ session = "set"
    /\ transport = "open"
    /\ toolResult = NoToolResult
    /\ mcpOp = NoOp

NextEnvelope == McpExecuteTool \/ McpDisconnect

SpecEnvelope == EnvelopeInit /\ [][NextEnvelope]_vars

----------------------------------------------------------------------------
(* Texts.  A text is the sequence of its characters, so that lower() and   *)
(* the substring test `in` are computed as Python computes them.           *)

Uppers ==
    <<"A", "B", "C", "D", "E", "F", "G", "H", "I", "J", "K", "L", "M",
      "N", "O", "P", "Q", "R", "S", "T", "U", "V", "W", "X", "Y", "Z">>
Lowers ==
    <<"a", "b", "c", "d", "e", "f", "g", "h", "i", "j", "k", "l", "m",
      "n", "o", "p", "q", "r", "s", "t", "u", "v", "w", "x", "y", "z">>

\* str.lower(): a capital letter becomes its small letter, any other
\* character stays.
LowerOf ==
    [c \in Range(Uppers) |->
        Lowers[CHOOSE i \in 1..Len(Uppers) : Uppers[i] = c]]
LowerChar(c) == IF c \in DOMAIN LowerOf THEN LowerOf[c] ELSE c
ToLower(text) == [i \in 1..Len(text) |-> LowerChar(text[i])]

\* sub in text
Contains(sub, text) ==
    \E i \in 0..(Len(text) - Len(sub)) :
        \A j \in 1..Len(sub) : text[i + j] = sub[j]

\* The literals process_user_query looks for.
KwNamespace ==
    <<"n", "a", "m", "e", "s", "p", "a", "c", "e">>
KwList ==
    <<"l", "i", "s", "t">>
KwPod ==
    <<"p", "o", "d">>
KwProduction ==
    <<"p", "r", "o", "d", "u", "c", "t", "i", "o", "n">>
KwDevelopment ==
    <<"d", "e", "v", "e", "l", "o", "p", "m", "e", "n", "t">>
KwConnect ==
    <<"c", "o", "n", "n", "e", "c", "t">>
KwCluster ==
    <<"c", "l", "u", "s", "t", "e", "r">>
KwAi ==
    <<"a", "i">>
KwLlm ==
    <<"l", "l", "m">>
KwHelp ==
    <<"h", "e", "l", "p">>

\* The example queries of the specification and of the help text.
QListAllNamespaces ==
    <<"l", "i", "s", "t", " ", "a", "l", "l", " ", "n", "a", "m", "e", "s",
      "p", "a", "c", "e", "s">>
QListPodsInProductionNamespace ==
    <<"l", "i", "s", "t", " ", "p", "o", "d", "s", " ", "i", "n", " ", "p",
      "r", "o", "d", "u", "c", "t", "i", "o", "n", " ", "n", "a", "m", "e",
      "s", "p", "a", "c", "e">>
QListPodsInDevelopmentNamespace ==
    <<"l", "i", "s", "t", " ", "p", "o", "d", "s", " ", "i", "n", " ", "d",
      "e", "v", "e", "l", "o", "p", "m", "e", "n", "t", " ", "n", "a", "m",
      "e", "s", "p", "a", "c", "e">>
QShowMeSomethingRandom ==
    <<"s", "h", "o", "w", " ", "m", "e", " ", "s", "o", "m", "e", "t", "h",
      "i", "n", "g", " ", "r", "a", "n", "d", "o", "m">>
QHelpListAllNamespaces ==
    <<"L", "i", "s", "t", " ", "a", "l", "l", " ", "n", "a", "m", "e", "s",
      "p", "a", "c", "e", "s">>
QHelpShowPods ==
    <<"S", "h", "o", "w", " ", "p", "o", "d", "s", " ", "i", "n", " ", "d",
      "e", "f", "a", "u", "l", "t", " ", "n", "a", "m", "e", "s", "p", "a",
      "c", "e">>
QHelpConnect ==
    <<"C", "o", "n", "n", "e", "c", "t", " ", "t", "o", " ", "c", "l", "u",
      "s", "t", "e", "r">>
QHelpListPodsInProduction ==
    <<"L", "i", "s", "t", " ", "p", "o", "d", "s", " ", "i", "n", " ", "p",
      "r", "o", "d", "u", "c", "t", "i", "o", "n">>
QHelpAi ==
    <<"A", "I", " ", "h", "e", "l", "p", " ", "w", "i", "t", "h", " ", "t",
      "r", "o", "u", "b", "l", "e", "s", "h", "o", "o", "t", "i", "n", "g">>
ExampleQueries ==
    {QListAllNamespaces,
     QListPodsInProductionNamespace,
     QListPodsInDevelopmentNamespace,
     QShowMeSomethingRandom,
     QHelpListAllNamespaces,
     QHelpShowPods,
     QHelpConnect,
     QHelpListPodsInProduction,
     QHelpAi}

\* The pieces the other queries are put together from.
FrList ==
    <<"L", "i", "s", "t", " ">>
FrPod ==
    <<"p", "o", "d", "s", " ">>
FrNamespace ==
    <<"N", "a", "m", "e", "s", "p", "a", "c", "e", " ">>
FrProduction ==
    <<"p", "r", "o", "d", "u", "c", "t", "i", "o", "n", " ">>
FrDevelopment ==
    <<"D", "e", "v", "e", "l", "o", "p", "m", "e", "n", "t", " ">>
FrConnect ==
    <<"c", "o", "n", "n", "e", "c", "t", " ">>
FrCluster ==
    <<"c", "l", "u", "s", "t", "e", "r", " ">>
FrAi ==
    <<"A", "I", " ">>
FrLlm ==
    <<"l", "l", "m", " ">>
FrHelp ==
    <<"h", "e", "l", "p", " ">>
FrShow ==
    <<"S", "h", "o", "w", " ", "m", "e", " ">>
Fragments ==
    {FrList,
     FrPod,
     FrNamespace,
     FrProduction,
     FrDevelopment,
     FrConnect,
     FrCluster,
     FrAi,
     FrLlm,
     FrHelp,
     FrShow}

\* Most fragments a generated query is put together from.
MaxFragments == 3

RECURSIVE Concat(_)
Concat(pieces) ==
    IF pieces = <<>> THEN <<>>
    ELSE Head(pieces) \o Concat(Tail(pieces))

\* The texts process_user_query is tried on.
Queries ==
    ExampleQueries \cup
    {Concat(pieces) : pieces \in UNION {[1..n -> Fragments] :
                                           n \in 1..MaxFragments}}

----------------------------------------------------------------------------
(* QueryClassifier: process_user_query of the host programs                *)
(*   host = "real"  : src/mcp_client/real_mcp_client.py (the same rules    *)
(*                    are in direct_mcp_client.py, working_mcp_client.py)  *)
(*   host = "final" : src/old/final_working_host.py                        *)

Hosts == {"real", "final"}

ToolCall(name, keys, namespace, question) ==
    [name |-> name, keys |-> keys, namespace |-> namespace,
     question |-> question]

\* The namespace the pod rule passes on.
PodNamespace(lower) ==
    IF Contains(KwNamespace, lower)
    THEN IF Contains(KwProduction, lower) THEN "production"
         ELSE IF Contains(KwDevelopment, lower) THEN "development"
         ELSE "default"
    ELSE "default"

\* A fallback that passes the lowered text on.
AskLlm_Lowered(text, h) ==
    [tool_used |-> "ask_llm",
     call |-> ToolCall("ask_llm",
                       IF h = "final" THEN {"question", "context", "provider"}
                       ELSE {"question", "context"}, "", ToLower(text))]

\* ask_llm_via_mcp(user_query) / execute_ask_llm(user_query)
AskLlm(text, h) ==
    [tool_used |-> "ask_llm",
     call |-> ToolCall("ask_llm",
                       IF h = "final" THEN {"question", "context", "provider"}
                       ELSE {"question", "context"}, "", text)]

\* connect_cluster_via_mcp(): the parameters come from the environment;
\* without them no tool call is made.
ConnectCluster(creds) ==
    [tool_used |-> "connect_cluster",
     call |-> IF creds
              THEN ToolCall("connect_cluster",
                            {"cluster_url", "token", "verify_ssl"}, "", <<>>)
              ELSE NoSent]

\* The rules with the ai/llm/help rule tried before the connect rule.
process_user_query_AiFirst(text, h, creds) ==
    LET lower == ToLower(text)
    IN  IF Contains(KwNamespace, lower) /\ Contains(KwList, lower)
        THEN [tool_used |-> "list_namespaces",
              call |-> ToolCall("list_namespaces", {}, "", <<>>)]
        ELSE IF Contains(KwPod, lower) /\ Contains(KwList, lower)
        THEN [tool_used |-> "list_pods",
              call |-> ToolCall("list_pods", {"namespace"},
                                PodNamespace(lower), <<>>)]
        ELSE IF Contains(KwAi, lower) \/ Contains(KwLlm, lower)
                \/ Contains(KwHelp, lower)
        THEN AskLlm(text, h)
        ELSE IF h # "final" /\ (Contains(KwConnect, lower)
                                \/ Contains(KwCluster, lower))
        THEN ConnectCluster(creds)
        ELSE AskLlm(text, h)

\* The rules with the pod rule tried first.
process_user_query_PodFirst(text, h, creds) ==
    LET lower == ToLower(text)
    IN  IF Contains(KwPod, lower) /\ Contains(KwList, lower)
        THEN [tool_used |-> "list_pods",
              call |-> ToolCall("list_pods", {"namespace"},
                                PodNamespace(lower), <<>>)]
        ELSE IF Contains(KwNamespace, lower) /\ Contains(KwList, lower)
        THEN [tool_used |-> "list_namespaces",
              call |-> ToolCall("list_namespaces", {}, "", <<>>)]
        ELSE IF h # "final" /\ (Contains(KwConnect, lower)
                                \/ Contains(KwCluster, lower))
        THEN ConnectCluster(creds)
        ELSE AskLlm(text, h)

\* The if/elif chain of process_user_query: the tool recorded as tool_used
\* and the tool call issued.
process_user_query(text, h, creds) ==
    LET lower == ToLower(text)
    IN  IF Contains(KwNamespace, lower) /\ Contains(KwList, lower)
        THEN [tool_used |-> "list_namespaces",
              call |-> ToolCall("list_namespaces", {}, "", <<>>)]
        ELSE IF Contains(KwPod, lower) /\ Contains(KwList, lower)
        THEN [tool_used |-> "list_pods",
              call |-> ToolCall("list_pods", {"namespace"},
                                PodNamespace(lower), <<>>)]
        ELSE IF h # "final" /\ (Contains(KwConnect, lower)
                                \/ Contains(KwCluster, lower))
        THEN ConnectCluster(creds)
        ELSE IF Contains(KwAi, lower) \/ Contains(KwLlm, lower)
                \/ Contains(KwHelp, lower)
        THEN AskLlm(text, h)
        ELSE AskLlm(text, h)

\* A log that keeps its five latest records.
add_to_history_Capped(history, user_query, response, tool_used) ==
    LET all == Append(history,
                      [timestamp |-> Len(history) + 1,
                       user_query |-> user_query,
                       response |-> response,
                       tool_used |-> tool_used])
    IN  IF Len(all) > 5 THEN Tail(all) ELSE all

\* add_to_history: the record is appended; its timestamp is the time of
\* the call, modelled by the ordinal of the record.
add_to_history(history, user_query, response, tool_used) ==
    Append(history,
           [timestamp |-> Len(history) + 1,
            user_query |-> user_query,
            response |-> response,
            tool_used |-> tool_used])

\* The outcomes of executing the routed tool; each comes back as a text.
ExecOutcomes == {"ok", "error"}

ServerIdle ==
    /\ server = "main"
    /\ cluster = 0
    /\ handles = 0
    /\ providers = {}
    /\ default_provider = None
    /\ req = NoRequest
    /\ res = NoResult
    /\ calls = <<>>
    /\ llmCalls = 0
    /\ llmResponse = NoResponse
    /\ raised = FALSE
    /\ scaleCalls = 0

\* A host about to process one text.
ClassifierInit ==
    /\ ServerIdle
    /\ host \in Hosts
    /\ hostCreds \in (IF host = "real" THEN BOOLEAN ELSE {FALSE})
    /\ query \in Queries
    /\ sent = NoSent
    /\ conversation_history = <<>>
    /\ ReplIdle
    /\ AuxIdle
    /\ refused = ""

\* process_user_query(query): route, execute, add_to_history.
ProcessUserQuery ==
    /\ conversation_history = <<>>
    /\ \E outcome \in ExecOutcomes :
          LET r == process_user_query(query, host, hostCreds)
          IN  /\ sent' = r.call
              /\ conversation_history' =
                    add_to_history(conversation_history, query,
                                   IF r.call = NoSent THEN "error"
                                   ELSE outcome,
                                   r.tool_used)
    /\ UNCHANGED <<query, host, hostCreds, serverVars, replVars, auxVars,
                   refused>>

NextClassifier == ProcessUserQuery

SpecClassifier == ClassifierInit /\ [][NextClassifier]_vars

----------------------------------------------------------------------------
(* HostShell: interactive_mode of the host programs                        *)
(*   host = "real", "final"   : as above (the loops of direct_mcp_client,  *)
(*                              working_mcp_client, working_host_with_mcp  *)
(*                              are the same)                              *)
(*   host = "working_host_app": src/mcp_host/working_host_app.py           *)
(*   host = "host_test_app"   : src/old/host_test_app.py                   *)

ReplHosts == {"real", "final", "working_host_app", "host_test_app"}

\* Most records one session logs (free text is not read beyond it).
MaxHistory == 7

\* The literals _analyze_query of host_test_app looks for.
AnalysisKeywords ==
    {<<"a", "n", "a", "l", "y", "z", "e">>,
     <<"a", "n", "a", "l", "y", "s", "i", "s">>,
     <<"h", "e", "a", "l", "t", "h">>,
     <<"r", "e", "c", "o", "m", "m", "e", "n", "d", "a", "t", "i", "o", "n">>}
TroubleKeywords ==
    {<<"t", "r", "o", "u", "b", "l", "e", "s", "h", "o", "o", "t">>,
     <<"p", "r", "o", "b", "l", "e", "m">>,
     <<"i", "s", "s", "u", "e">>,
     <<"e", "r", "r", "o", "r">>,
     KwHelp,
     <<"f", "i", "x">>}
QuestionKeywords ==
    {<<"w", "h", "a", "t">>,
     <<"h", "o", "w">>,
     <<"w", "h", "y">>,
     <<"e", "x", "p", "l", "a", "i", "n">>,
     <<"b", "e", "s", "t", " ", "p", "r", "a", "c", "t", "i", "c", "e">>,
     <<"g", "u", "i", "d", "e">>}
KwLog ==
    <<"l", "o", "g">>

\* The question the test command of the MCP clients asks.
QWhatIsOpenShift ==
    <<"W", "h", "a", "t", " ", "i", "s", " ", "O", "p", "e", "n", "S", "h",
      "i", "f", "t", "?">>

\* _analyze_query(query) of host_test_app: the first rule that matches.
\* The log rule needs a word "namespace" and a word "pod" in the text to
\* name get_pod_logs, else it falls through to the default.
_analyze_query(text) ==
    LET lower == ToLower(text)
        any(kws) == \E k \in kws : Contains(k, lower)
    IN  IF any(AnalysisKeywords) THEN "intelligent_cluster_analysis"
        ELSE IF any(TroubleKeywords) THEN "get_troubleshooting_help"
        ELSE IF any(QuestionKeywords) THEN "ask_llm"
        ELSE IF any({KwNamespace}) THEN "list_namespaces"
        ELSE IF any({KwPod}) THEN "list_pods"
        ELSE IF any({KwLog}) /\ any({KwNamespace}) /\ any({KwPod})
        THEN "get_pod_logs"
        ELSE "ask_llm"

\* What process_user_query did with a text: whether it logged a record,
\* the tool it recorded, the response it returned, the call it issued.
Processing(logged, tool_used, resp, call) ==
    [logged |-> logged, tool_used |-> tool_used, response |-> resp,
     call |-> call]

\* process_user_query of host_test_app.  `outcome` is what executing the
\* tool met: "ok", "error" (a ToolResult with success False, formatted as
\* an error text) or "raise" (an exception inside the try block).
host_test_app_process_user_query(connected, text, outcome) ==
    IF ~connected THEN Processing(FALSE, None, "not_connected", NoSent)
    ELSE IF outcome = "raise"
    THEN Processing(TRUE, "error", "error", NoSent)
    ELSE Processing(TRUE, _analyze_query(text), outcome, NoSent)

\* process_user_query of working_host_app: the text goes to the LLM; an
\* LLM error and an exception both come back as a text.
working_host_app_process_user_query(text, outcome) ==
    Processing(TRUE, "intelligent_response", outcome, NoSent)

\* process_user_query of the host h.
HostProcess(h, text, creds, outcome) ==
    IF h = "host_test_app"
    THEN host_test_app_process_user_query(TRUE, text, outcome)
    ELSE IF h = "working_host_app"
    THEN working_host_app_process_user_query(text, outcome)
    ELSE LET r == process_user_query(text, h, creds)
         IN  Processing(TRUE, r.tool_used,
                        IF r.call = NoSent THEN "error" ELSE outcome, r.call)

\* The key under which the history display reads the query of a record.
HistoryKey(h) == IF h = "working_host_app" THEN "query" ELSE "user_query"

\* history[-5:]
LastFive(history) ==
    SubSeq(history, IF Len(history) > 5 THEN Len(history) - 4 ELSE 1,
           Len(history))

\* _show_history / get_history_summary: the display, or the KeyError that
\* reading a key the records do not have raises.
_show_history(history, key) ==
    IF history = <<>>
    THEN [kind |-> "no_history", count |-> 0, records |-> <<>>]
    ELSE IF key \notin DOMAIN history[1]
    THEN [kind |-> "raise", count |-> Len(history), records |-> <<>>]
    ELSE [kind |-> "listing", count |-> Len(history),
          records |-> LastFive(history)]

\* A loop without the except Exception clause.
LoopExcept_Absent(exc) == IF exc THEN "crashed" ELSE "reading"

\* except Exception as e: print the error; the while loop goes on.
LoopExcept(exc) == "reading"

\* The texts typed and what executing the routed tool meets.  An exception
\* inside the try block of process_user_query needs code there that can
\* raise: host_test_app formats the result outside any inner handler.
ReplScenarios(h) ==
    {[text |-> QHelpListAllNamespaces, outcome |-> "ok"],
     [text |-> QHelpAi, outcome |-> "error"]}
    \cup (IF h = "host_test_app"
          THEN {[text |-> QHelpListAllNamespaces, outcome |-> "raise"]}
          ELSE {})

\* interactive_mode is entered with an empty log.
ReplInit ==
    /\ ServerIdle
    /\ host \in ReplHosts
    /\ hostCreds \in (IF host = "real" THEN BOOLEAN ELSE {FALSE})
    /\ query = <<>>
    /\ sent = NoSent
    /\ conversation_history = <<>>
    /\ replState = "reading"
    /\ lastInput = NoInput
    /\ shown = NotShown
    /\ AuxIdle
    /\ refused = ""

\* One iteration of the loop: what it read, where the loop is after it.
Iteration(kind, word, outcome, state) ==
    /\ replState = "reading"
    /\ lastInput' = [kind |-> kind, word |-> word, outcome |-> outcome]
    /\ replState' = state
    /\ UNCHANGED <<host, hostCreds, serverVars, auxVars, refused>>

\* An empty line: continue.
ReplEmpty ==
    /\ Iteration("empty", "", "ok", LoopExcept(FALSE))
    /\ shown' = NotShown
    /\ UNCHANGED <<query, sent, conversation_history>>

\* quit, exit, q: break.
ReplQuit ==
    /\ \E word \in {"quit", "exit", "q"} :
          Iteration("quit", word, "ok", "exited")
    /\ shown' = NotShown
    /\ UNCHANGED <<query, sent, conversation_history>>

ReplHelp ==
    /\ Iteration("help", "help", "ok", LoopExcept(FALSE))
    /\ shown' = NotShown
    /\ UNCHANGED <<query, sent, conversation_history>>

ReplStatus ==
    /\ Iteration("status", "status", "ok", LoopExcept(FALSE))
    /\ shown' = NotShown
    /\ UNCHANGED <<query, sent, conversation_history>>

\* history: the display; an exception in it is caught by the loop.
ReplHistory ==
    LET d == _show_history(conversation_history, HistoryKey(host))
    IN  /\ Iteration("history", "history",
                     IF d.kind = "raise" THEN "raise" ELSE "ok",
                     LoopExcept(d.kind = "raise"))
        /\ shown' = d
        /\ UNCHANGED <<query, sent, conversation_history>>

\* test-mcp, test-tools, tools: the MCP clients run their three tools, the
\* last with a fixed question; the host apps print their tools.
ReplTest ==
    /\ Iteration("test", "test", "ok", LoopExcept(FALSE))
    /\ shown' = NotShown
    /\ sent' = IF host \in {"real", "final"}
               THEN AskLlm(QWhatIsOpenShift, host).call ELSE sent
    /\ UNCHANGED <<query, conversation_history>>

\* Any other text: process_user_query.
ReplQuery ==
    /\ Len(conversation_history) < MaxHistory
    /\ \E sc \in ReplScenarios(host) :
          LET r == HostProcess(host, sc.text, hostCreds, sc.outcome)
          IN  /\ Iteration("query", "", sc.outcome, LoopExcept(FALSE))
              /\ query' = sc.text
              /\ sent' = r.call
              /\ conversation_history' =
                    IF r.logged
                    THEN add_to_history(conversation_history, sc.text,
                                        r.response, r.tool_used)
                    ELSE conversation_history
    /\ shown' = NotShown

\* Ctrl-C at the prompt or while a query is processed: break.
ReplInterrupt ==
    /\ Iteration("interrupt", "", "ok", "exited")
    /\ shown' = NotShown
    /\ UNCHANGED <<query, sent, conversation_history>>

\* input() raises (end of input): caught by the loop.
ReplInputError ==
    /\ Iteration("eof", "", "raise", LoopExcept(TRUE))
    /\ shown' = NotShown
    /\ UNCHANGED <<query, sent, conversation_history>>

NextRepl ==
    \/ ReplEmpty
    \/ ReplQuit
    \/ ReplHelp
    \/ ReplStatus
    \/ ReplHistory
    \/ ReplTest
    \/ ReplQuery
    \/ ReplInterrupt
    \/ ReplInputError

SpecRepl == ReplInit /\ [][NextRepl]_vars

----------------------------------------------------------------------------
(* OpenShiftCluster.get_resource_usage: src/openshift_cluster.py.          *)
(* A quantity is the sequence of its characters.  CPU is counted in        *)
(* thousandths of a core (the float the code computes, times 1000), memory *)
(* in bytes.                                                               *)

\* Most containers the listed pods have together.
MaxContainers == 3

DigitChars == <<"0", "1", "2", "3", "4", "5", "6", "7", "8", "9">>
DigitOf(c) == (CHOOSE i \in 1..10 : DigitChars[i] = c) - 1
IsDigits(str) ==
    str # <<>> /\ \A i \in 1..Len(str) : \E d \in 1..10 : DigitChars[d] = str[i]
EndsWith(str, suffix) ==
    /\ Len(str) >= Len(suffix)
    /\ SubSeq(str, Len(str) - Len(suffix) + 1, Len(str)) = suffix
\* str[:-n]
DropLast(str, n) == SubSeq(str, 1, Len(str) - n)

RECURSIVE IntOf(_)
IntOf(str) ==
    IF str = <<>> THEN 0
    ELSE IntOf(DropLast(str, 1)) * 10 + DigitOf(str[Len(str)])

RECURSIVE Pow10(_)
Pow10(n) == IF n = 0 THEN 1 ELSE 10 * Pow10(n - 1)

Parsed(v) == [ok |-> TRUE, v |-> v]
ValueError == [ok |-> FALSE, v |-> 0]

\* int(str): the digits' value, ValueError for anything else.
PyInt(str) == IF IsDigits(str) THEN Parsed(IntOf(str)) ELSE ValueError

\* float(str), times 1000: digits, or digits "." digits (at most three
\* after the point, so that the value is whole in thousandths).
PyFloat(str) ==
    LET dots == {i \in 1..Len(str) : str[i] = "."}
    IN  IF IsDigits(str) THEN Parsed(IntOf(str) * 1000)
        ELSE IF Cardinality(dots) = 1
        THEN LET at == CHOOSE i \in dots : TRUE
                 whole == SubSeq(str, 1, at - 1)
                 frac == SubSeq(str, at + 1, Len(str))
             IN  IF IsDigits(whole) /\ IsDigits(frac) /\ Len(frac) <= 3
                 THEN Parsed(IntOf(whole) * 1000
                             + IntOf(frac) * Pow10(3 - Len(frac)))
                 ELSE ValueError
        ELSE ValueError

\* v times k, where v was parsed.
Times(p, k) == IF p.ok THEN Parsed(p.v * k) ELSE p

\* _parse_cpu_value, in thousandths of a core: "100m" is 100, "2" is 2000.
_parse_cpu_value(cpu_str) ==
    IF EndsWith(cpu_str, <<"m">>)
    THEN LET f == PyFloat(DropLast(cpu_str, 1))
         IN  IF f.ok THEN Parsed(f.v \div 1000) ELSE f
    ELSE PyFloat(cpu_str)

\* _parse_memory_value, in bytes.
_parse_memory_value(memory_str) ==
    IF EndsWith(memory_str, <<"K", "i">>)
    THEN Times(PyInt(DropLast(memory_str, 2)), 1024)
    ELSE IF EndsWith(memory_str, <<"M", "i">>)
    THEN Times(PyInt(DropLast(memory_str, 2)), 1024 * 1024)
    ELSE IF EndsWith(memory_str, <<"G", "i">>)
    THEN Times(PyInt(DropLast(memory_str, 2)), 1024 * 1024 * 1024)
    ELSE IF EndsWith(memory_str, <<"T", "i">>)
    THEN Times(Times(PyInt(DropLast(memory_str, 2)), 1024 * 1024),
               1024 * 1024)
    ELSE IF EndsWith(memory_str, <<"K">>) \/ EndsWith(memory_str, <<"k">>)
    THEN Times(PyInt(DropLast(memory_str, 1)), 1000)
    ELSE IF EndsWith(memory_str, <<"M">>)
    THEN Times(PyInt(DropLast(memory_str, 1)), 1000 * 1000)
    ELSE IF EndsWith(memory_str, <<"G">>)
    THEN Times(PyInt(DropLast(memory_str, 1)), 1000 * 1000 * 1000)
    ELSE IF EndsWith(memory_str, <<"T">>)
    THEN Times(Times(PyInt(DropLast(memory_str, 1)), 1000 * 1000),
               1000 * 1000)
    ELSE PyInt(memory_str)

\* The requests or limits of a container: a map from "cpu" and "memory" to
\* quantities; the empty map stands for None and for {}.
NoResources == <<>>
Q100m == <<"1", "0", "0", "m">>
Q2 == <<"2">>
Q0p5 == <<"0", ".", "5">>
Q64Mi == <<"6", "4", "M", "i">>
Q2k == <<"2", "k">>
Q1p5Gi == <<"1", ".", "5", "G", "i">>

RequestMaps ==
    {NoResources,
     [k \in {"cpu"} |-> Q100m],
     [k \in {"cpu", "memory"} |-> IF k = "cpu" THEN Q2 ELSE Q64Mi],
     [k \in {"memory"} |-> Q1p5Gi]}
LimitMaps ==
    {NoResources,
     [k \in {"cpu", "memory"} |-> IF k = "cpu" THEN Q0p5 ELSE Q2k]}
Containers == [requests : RequestMaps, limits : LimitMaps]

UsageKeys == {"cpu_request", "memory_request", "cpu_limit", "memory_limit"}

\* What one container adds to each of the four sums: the `if ... in`
\* tests, then the parse.
Quantity(resources, k) ==
    IF k \notin DOMAIN resources THEN Parsed(0)
    ELSE IF k = "cpu" THEN _parse_cpu_value(resources[k])
    ELSE _parse_memory_value(resources[k])
ContainerUsage(container) ==
    [cpu_request |-> Quantity(container.requests, "cpu"),
     memory_request |-> Quantity(container.requests, "memory"),
     cpu_limit |-> Quantity(container.limits, "cpu"),
     memory_limit |-> Quantity(container.limits, "memory")]

\* A loop that counts the first container of every pod only.
ContainerLoop_FirstOnly(containers, acc) ==
    IF containers = <<>> \/ ~acc.ok THEN acc
    ELSE LET u == ContainerUsage(Head(containers))
         IN  [ok |-> \A k \in UsageKeys : u[k].ok,
              pod |-> [k \in UsageKeys |-> acc.pod[k] + u[k].v],
              total |-> [k \in UsageKeys |-> acc.total[k] + u[k].v],
              pods |-> acc.pods]

\* The loop over a pod's containers: pod_usage[k] += v and
\* usage_info['total_' + k] += v; ok turns FALSE where a parse raises.
RECURSIVE ContainerLoop(_, _)
ContainerLoop(containers, acc) ==
    IF containers = <<>> \/ ~acc.ok THEN acc
    ELSE LET u == ContainerUsage(Head(containers))
         IN  ContainerLoop(
                 Tail(containers),
                 [ok |-> \A k \in UsageKeys : u[k].ok,
                  pod |-> [k \in UsageKeys |-> acc.pod[k] + u[k].v],
                  total |-> [k \in UsageKeys |-> acc.total[k] + u[k].v],
                  pods |-> acc.pods])

Zeros == [k \in UsageKeys |-> 0]

\* The loop over the pods: a fresh pod_usage, the containers, the append.
RECURSIVE PodLoop(_, _)
PodLoop(pods, acc) ==
    IF pods = <<>> \/ ~acc.ok THEN acc
    ELSE LET a == ContainerLoop(Head(pods), [acc EXCEPT !.pod = Zeros])
         IN  PodLoop(Tail(pods),
                     [a EXCEPT !.pods = IF a.ok THEN Append(a.pods, a.pod)
                                        ELSE a.pods])

\* get_resource_usage: the whole body is one try; its except returns
\* {'error': str(e)} alone.
get_resource_usage(pods, api) ==
    LET a == PodLoop(pods, [ok |-> TRUE, pod |-> Zeros, total |-> Zeros,
                            pods |-> <<>>])
    IN  IF api = "raise" THEN [error |-> "ApiException"]
        ELSE IF ~a.ok THEN [error |-> "ValueError"]
        ELSE [pods |-> a.pods, total |-> a.total]

ContainerCount(pods) ==
    Cardinality({<<i, j>> \in (1..Len(pods)) \X (1..MaxContainers + 1) :
                    j <= Len(pods[i])})

UsageInit ==
    /\ ServerIdle
    /\ HostIdle
    /\ McpIdle
    /\ PipeIdle
    /\ TasksIdle
    /\ refused = ""
    /\ podList = <<>>
    /\ usageCall = "none"
    /\ usage_info = <<>>

UsageUnchanged == UNCHANGED <<serverVars, query, host, hostCreds, sent,
                              conversation_history, replVars, mcpVars,
                              pipeVars, tasks, refused>>

\* The namespace gets a pod with one container.
AddPod ==
    /\ usageCall = "none"
    /\ ContainerCount(podList) < MaxContainers
    /\ \E c \in Containers : podList' = Append(podList, <<c>>)
    /\ UNCHANGED <<usageCall, usage_info>>
    /\ UsageUnchanged

\* The last pod gets one more container.
AddContainer ==
    /\ usageCall = "none"
    /\ podList # <<>>
    /\ ContainerCount(podList) < MaxContainers
    /\ \E c \in Containers :
          podList' = [podList EXCEPT ![Len(podList)] = Append(@, c)]
    /\ UNCHANGED <<usageCall, usage_info>>
    /\ UsageUnchanged

\* cluster.get_resource_usage(namespace).
GetResourceUsage ==
    /\ usageCall = "none"
    /\ \E api \in {"items", "raise"} :
          /\ usageCall' = api
          /\ usage_info' = get_resource_usage(podList, api)
    /\ UNCHANGED podList
    /\ UsageUnchanged

NextUsage == AddPod \/ AddContainer \/ GetResourceUsage

SpecUsage == UsageInit /\ [][NextUsage]_vars

----------------------------------------------------------------------------
(* The line-protocol clients: src/mcp_client/real_mcp_client.py (host      *)
(* "real") and src/mcp_client/working_mcp_client.py (host "working").      *)
(* They write one JSON line per request to the server's stdin and read     *)
(* lines from its stdout; the server writes one response line per request, *)
(* in the order of the requests.                                           *)

\* Most messages one client writes.
MaxRequests == 4

PipeHosts == {"real", "working"}
PipeTools == {"list_namespaces", "list_pods", "connect_cluster", "ask_llm"}

PipeInit ==
    /\ ServerIdle
    /\ host \in PipeHosts
    /\ hostCreds = FALSE
    /\ query = <<>>
    /\ sent = NoSent
    /\ conversation_history = <<>>
    /\ ReplIdle
    /\ McpIdle
    /\ UsageIdle
    /\ TasksIdle
    /\ refused = ""
    /\ server_process = "none"
    /\ foreignServer \in BOOLEAN
    /\ started = "none"
    /\ stdoutLines = <<>>
    /\ requestsSent = 0
    /\ toolReply = NoReply

PipeUnchanged == UNCHANGED <<serverVars, query, host, hostCreds, sent,
                             conversation_history, replVars, mcpVars,
                             usageVars, tasks, refused>>

\* start_server: True at once when pgrep finds a server; else Popen, and
\* True iff the process lives after the wait.
start_server(found, spawn) ==
    IF found THEN [returned |-> "True", process |-> "none"]
    ELSE IF spawn = "raise" THEN [returned |-> "False", process |-> "none"]
    ELSE [returned |-> IF spawn = "alive" THEN "True" ELSE "False",
          process |-> spawn]

StartServer ==
    /\ started = "none"
    /\ \E spawn \in {"alive", "dead", "raise"} :
          LET r == start_server(foreignServer, spawn)
          IN  /\ started' = r.returned
              /\ server_process' = r.process
    /\ UNCHANGED <<foreignServer, stdoutLines, requestsSent, toolReply>>
    /\ PipeUnchanged

\* _send_mcp_message and the write of execute_mcp_tool: the line is
\* written iff self.server_process is set and alive.
CanSend(process) == process = "alive"

\* initialize_mcp_connection (working_mcp_client only): two requests are
\* written and no line is read.
InitializeMcpConnection ==
    /\ host = "working"
    /\ started = "True"
    /\ requestsSent + 2 <= MaxRequests
    /\ IF CanSend(server_process)
       THEN /\ stdoutLines' =
                  stdoutLines \o
                  <<Message("initialize", "", requestsSent + 1),
                    Message("tools/list", "", requestsSent + 2)>>
            /\ requestsSent' = requestsSent + 2
       ELSE UNCHANGED <<stdoutLines, requestsSent>>
    /\ UNCHANGED <<server_process, foreignServer, started, toolReply>>
    /\ PipeUnchanged

\* execute_mcp_tool: the request is written, and after the wait the
\* oldest line of the pipe is read and returned as the data.
execute_mcp_tool(h, process, lines, request) ==
    IF ~CanSend(process)
    THEN [reply |-> [request |-> request, success |-> FALSE,
                     data |-> NoMessage,
                     error |-> IF h = "real" THEN "Server not running"
                               ELSE "Failed to send message"],
          lines |-> lines, written |-> 0]
    ELSE LET pipe == Append(lines, request)
         IN  [reply |-> [request |-> request, success |-> TRUE,
                         data |-> Head(pipe), error |-> None],
              lines |-> Tail(pipe), written |-> 1]

ExecuteMcpTool ==
    /\ started = "True"
    /\ requestsSent < MaxRequests
    /\ \E name \in PipeTools :
          LET r == execute_mcp_tool(host, server_process, stdoutLines,
                       Message("tools/call", name, requestsSent + 1))
          IN  /\ toolReply' = r.reply
              /\ stdoutLines' = r.lines
              /\ requestsSent' = requestsSent + r.written
    /\ UNCHANGED <<server_process, foreignServer, started>>
    /\ PipeUnchanged

\* The server process the client started exits.
ServerExits ==
    /\ server_process = "alive"
    /\ server_process' = "dead"
    /\ UNCHANGED <<foreignServer, started, stdoutLines, requestsSent,
                   toolReply>>
    /\ PipeUnchanged

NextPipe ==
    StartServer \/ InitializeMcpConnection \/ ExecuteMcpTool \/ ServerExits

SpecPipe == PipeInit /\ [][NextPipe]_vars

----------------------------------------------------------------------------
(* The event loop of a tool server.  Each tools/call request is a task;    *)
(* a task runs without interruption from where it stands to its next await *)
(* or to its return, and the tasks take turns at those points only.        *)

\* The tools the tasks call.
TaskTools(s) ==
    IF s = "main"
    THEN {"connect_cluster", "list_pods", "get_resource_usage"}
    ELSE {"connect_cluster", "list_pods", "ask_llm",
          "intelligent_cluster_analysis", "get_troubleshooting_help"}

\* The arguments and the constructor outcome a task is called with.
TaskArgs(name) ==
    IF name = "connect_cluster"
    THEN {a \in ArgBags(name) : /\ DOMAIN a \subseteq {"cluster_url", "token"}
                                /\ "cluster_url" \in DOMAIN a}
    ELSE {<<>>}
TaskApi(name) ==
    IF name = "connect_cluster" THEN {"items", "raise"} ELSE {"items"}

\* A handler that awaits between its connected check and its gateway call.
HandlerSteps_AwaitsAfterCheck(s, name) ==
    IF name = "connect_cluster" THEN <<"install">>
    ELSE IF s = "main" \/ name \in LlmClusterBranches
    THEN <<"check", "await", "gateway">>
    ELSE IF name = "ask_llm" THEN <<"peek", "await">>
    ELSE IF name = "intelligent_cluster_analysis"
    THEN <<"check", "gateway", "await">>
    ELSE IF name = "get_troubleshooting_help"
    THEN <<"peek", "gateway", "await">>
    ELSE <<>>

\* The statements of a handler that touch the global `cluster` or give up
\* the event loop, in the order the handler executes them: "install"
\* assigns the global, "check" is `if not cluster: return`, "peek" is
\* `if cluster:`, "gateway" the calls cluster.<method>(...), "await" the
\* await of the LLM call.
HandlerSteps(s, name) ==
    IF name = "connect_cluster" THEN <<"install">>
    ELSE IF s = "main" \/ name \in LlmClusterBranches
    THEN <<"check", "gateway">>
    ELSE IF name = "ask_llm" THEN <<"peek", "await">>
    ELSE IF name = "intelligent_cluster_analysis"
    THEN <<"check", "gateway", "await">>
    ELSE IF name = "get_troubleshooting_help"
    THEN <<"peek", "gateway", "await">>
    ELSE <<>>

\* The globals of the server module.
Globals(cl, hs) == [cluster |-> cl, handles |-> hs, installed |-> FALSE]

\* connect_cluster as the server s handles it.
Install(s, tk, g) ==
    LET e == IF s = "main"
             THEN handle_call_tool("connect_cluster", tk.args, tk.api,
                                   g.cluster, g.handles)
             ELSE call_tool("connect_cluster", tk.args, tk.api, "ok",
                            g.cluster, g.handles, {}, None)
    IN  [cluster |-> e.cluster, handles |-> e.handles,
         installed |-> e.out.code = "connected"]

\* The task tk runs the steps from its position on, reading the global
\* where a step reads it, until it awaits or returns.
RECURSIVE RunTask(_, _, _, _)
RunTask(s, steps, tk, g) ==
    IF tk.pc > Len(steps)
    THEN [task |-> [tk EXCEPT !.state = "done"], globals |-> g]
    ELSE LET kind == steps[tk.pc]
             on == [tk EXCEPT !.pc = tk.pc + 1]
         IN  IF kind = "await"
             THEN [task |-> [on EXCEPT !.state = "waiting"], globals |-> g]
             ELSE IF kind = "install"
             THEN RunTask(s, steps, on, Install(s, tk, g))
             ELSE IF kind = "check" /\ g.cluster = 0
             THEN [task |-> [on EXCEPT !.state = "done", !.checked = 0],
                   globals |-> g]
             ELSE IF kind \in {"check", "peek"}
             THEN RunTask(s, steps, [on EXCEPT !.checked = g.cluster], g)
             ELSE IF g.cluster = 0 THEN RunTask(s, steps, on, g)
             ELSE RunTask(s, steps,
                          [on EXCEPT !.used = tk.used \cup {g.cluster}], g)

TasksUnchanged ==
    UNCHANGED <<server, providers, default_provider, req, res, calls,
                llmCalls, llmResponse, raised, scaleCalls, query, host,
                hostCreds, sent, conversation_history, replVars, mcpVars,
                usageVars, pipeVars, refused>>

\* A tools/call request arrives and its task is created.
TaskArrive(t) ==
    /\ tasks[t].state = "free"
    /\ \E name \in TaskTools(server) :
         \E args \in TaskArgs(name), api \in TaskApi(name) :
            tasks' = [tasks EXCEPT ![t] =
                         [NoTask EXCEPT !.name = name, !.args = args,
                                        !.api = api, !.state = "ready"]]
    /\ UNCHANGED <<cluster, handles>>
    /\ TasksUnchanged

\* The event loop gives the task t its turn: the handler starts, or goes
\* on after its await.  A handle installed meanwhile overtakes the other
\* tasks in flight.
TaskTurn(t, from) ==
    /\ tasks[t].state = from
    /\ LET r == RunTask(server, HandlerSteps(server, tasks[t].name),
                        tasks[t], Globals(cluster, handles))
       IN  /\ r.globals.handles <= MaxHandles
           /\ cluster' = r.globals.cluster
           /\ handles' = r.globals.handles
           /\ tasks' = [u \in TaskIds |->
                           IF u = t THEN r.task
                           ELSE IF r.globals.installed
                                   /\ tasks[u].state \in {"ready", "waiting"}
                           THEN [tasks[u] EXCEPT !.overtaken = TRUE]
                           ELSE tasks[u]]
    /\ TasksUnchanged

TaskStart(t) == TaskTurn(t, "ready")
TaskResume(t) == TaskTurn(t, "waiting")

\* The result of the task goes out and its slot is free again.
TaskReturn(t) ==
    /\ tasks[t].state = "done"
    /\ tasks' = [tasks EXCEPT ![t] = NoTask]
    /\ UNCHANGED <<cluster, handles>>
    /\ TasksUnchanged

NextTasks ==
    \E t \in TaskIds :
        TaskArrive(t) \/ TaskStart(t) \/ TaskResume(t) \/ TaskReturn(t)

SpecTasks == FollowedInit /\ [][NextTasks]_vars

----------------------------------------------------------------------------
(* Properties of the tool servers                                          *)

\* The tools of a registry that work on the cluster.
ClusterTools(s) ==
    ListedTools(s) \ {"connect_cluster", "ask_llm", "get_llm_providers",
                      "test_llm_connection", "get_troubleshooting_help"}

\* The cluster API is a read tool's when the tool is one of these.
ClusterReadTools ==
    {"list_namespaces", "list_pods", "list_services", "list_routes",
     "list_configmaps", "list_secrets"}

\* The required keys the last request lacks.
MissingKeys ==
    IF req.name \in ListedTools(server)
    THEN {k \in Range(RequiredArgs(server, req.name)) : ~Has(req.args, k)}
    ELSE {}

\* C1: a cluster tool invoked while `cluster` is None, whatever its
\* arguments, answers the "not connected" error, calls no gateway method,
\* leaves `cluster` None and raises nothing.
C1_NotConnected ==
    [][(cluster = 0 /\ req'.name \in ClusterTools(server))
          => /\ res'.kind = "error"
             /\ res'.code = "not_connected"
             /\ calls' = <<>>
             /\ llmCalls' = 0
             /\ cluster' = 0
             /\ ~raised']_vars

C1_Witness ==
    /\ server = "main"
    /\ cluster = 0
    /\ req.name = "scale_deployment"
    /\ DOMAIN req.args = {"namespace", "deployment_name", "replicas"}
    /\ res.code = "not_connected"

\* C2 as claimed: whenever the bag lacks a required key of the tool, in
\* any connection state, the answer is a failure that mentions a missing
\* key, and no gateway call is made.
C2_AsClaimed ==
    MissingKeys # {}
        => /\ res.kind = "error"
           /\ res.keys \cap MissingKeys # {}
           /\ calls = <<>>
           /\ llmCalls = 0

\* C2 amended: whenever the bag lacks a required key of the tool, no
\* gateway call is made and the answer is a failure; it is the "not
\* connected" error, naming no key, when the tool works on the cluster and
\* `cluster` is None, and otherwise it mentions the first missing key.
C2_MissingKey ==
    MissingKeys # {}
        => /\ res.kind = "error"
           /\ calls = <<>>
           /\ llmCalls = 0
           /\ IF req.name \in ClusterTools(server) /\ cluster = 0
              THEN res.code = "not_connected" /\ res.keys = {}
              ELSE FirstMissing(req.args, RequiredArgs(server, req.name))
                       \in res.keys

C2_Witness ==
    /\ server = "main"
    /\ cluster > 0
    /\ req.name = "get_pod_logs"
    /\ DOMAIN req.args = {"namespace"}
    /\ res.kind = "error"
    /\ "pod_name" \in res.keys

\* C3: whatever the tool name, the arguments and the outcome of the
\* gateway or vendor call, call_tool returns a result and no exception
\* leaves it, so the server goes on serving.
C3_NothingEscapes ==
    /\ ~raised
    /\ req # NoRequest => res.kind \in {"ok", "error"}

C3_Witness ==
    /\ res.kind = "error"
    /\ res.code = "exception"
    /\ res.exc = "ApiException"
    /\ ~raised

\* C4 as claimed: when the cluster API call under a cluster-read tool
\* raises, the tool's result is an error that carries the exception's
\* text.
C4_AsClaimed ==
    (req.name \in ClusterReadTools /\ req.api = "raise" /\ calls # <<>>)
        => (res.kind = "error" /\ res.exc = "ApiException")

\* C5: a successful connect_cluster constructs one new handle and makes
\* it the global one; every gateway call of a cluster tool goes through
\* the handle constructed last, and the tool leaves the handle in place.
C5_HandleReplaced ==
    [][/\ (req'.name = "connect_cluster" /\ res'.code = "connected")
            => /\ handles' = handles + 1
               /\ cluster' = handles'
               /\ cluster' # cluster
       /\ req'.name \in ClusterTools(server)
            => /\ \A i \in 1..Len(calls') : calls'[i].h = handles
               /\ calls' # <<>> => cluster = handles
               /\ cluster' = cluster
               /\ handles' = handles]_vars

C5_Witness ==
    /\ handles = 2
    /\ req.name = "list_pods"
    /\ calls = <<Call(2, "list_pods")>>

\* C6: a name outside the registry is answered with the unknown-tool
\* error naming it, with no gateway or vendor call and the handle as it
\* was; a name of the registry is never answered as unknown.
C6_UnknownTool ==
    [][IF req'.name \in ListedTools(server)
       THEN res'.code # "unknown_tool"
       ELSE /\ res'.kind = "error"
            /\ res'.code = "unknown_tool"
            /\ req'.name \in res'.keys
            /\ calls' = <<>>
            /\ llmCalls' = 0
            /\ cluster' = cluster
            /\ handles' = handles]_vars

C6_Witness ==
    /\ server = "main"
    /\ cluster > 0
    /\ req.name = "ask_llm"
    /\ res.code = "unknown_tool"

\* C12: ask_llm without a question fails before any provider is chosen.
\* With a question, the provider asked for is used when it is configured;
\* otherwise the default provider is used when there is one; otherwise the
\* answer is the error "No LLM provider available" and no vendor call is
\* made.
C12_ProviderSelection ==
    (server = "llm" /\ req.name = "ask_llm")
        => LET p == Get(req.args, "provider")
           IN  IF ~Truthy(Get(req.args, "question"))
               THEN /\ res.kind = "error"
                    /\ res.code = "required"
                    /\ llmResponse = NoResponse
                    /\ llmCalls = 0
               ELSE IF Has(req.args, "provider") /\ p \in providers
               THEN llmResponse.provider = p /\ llmCalls = 1
               ELSE IF default_provider # None
               THEN llmResponse.provider = default_provider /\ llmCalls = 1
               ELSE /\ llmResponse.provider = "none"
                    /\ res.kind = "error"
                    /\ res.exc = "No LLM provider available"
                    /\ llmCalls = 0

C12_Witness ==
    /\ server = "llm"
    /\ req.name = "ask_llm"
    /\ Get(req.args, "question") = "v"
    /\ Get(req.args, "provider") = "claude"
    /\ providers = {"gemini", "claude"}
    /\ default_provider = "gemini"
    /\ llmResponse.provider = "claude"
    /\ res.kind = "ok"

\* C13 as claimed: whenever a provider is configured, the default provider
\* is the first configured one in the order gemini, openai, claude, custom,
\* so that ask_llm with a question and no provider argument is answered by
\* that provider and does not fail with "No LLM provider available".
C13_AsClaimed ==
    LET order == <<"gemini", "openai", "claude", "custom">>
        first == order[CHOOSE i \in 1..4 :
                          /\ order[i] \in providers
                          /\ \A j \in 1..(i - 1) : order[j] \notin providers]
    IN  (/\ server = "llm"
         /\ providers # {}
         /\ req.name = "ask_llm"
         /\ Truthy(Get(req.args, "question"))
         /\ ~Has(req.args, "provider"))
            => /\ default_provider = first
               /\ llmResponse.provider = first
               /\ res.exc # "No LLM provider available"

\* C14: an LLMResponse with a non-empty error has an empty content; when
\* the vendor call of the chosen provider raises, the provider returns a
\* response whose error field holds str(e) (not None) and whose content is
\* empty, and no exception leaves the tool.
C14_ResponseInvariant ==
    llmResponse # NoResponse
        => /\ Truthy(llmResponse.error) => llmResponse.content = ""
           /\ (llmResponse.provider \in providers /\ req.llm # "ok")
                 => /\ llmResponse.error # None
                    /\ llmResponse.content = ""
                    /\ llmCalls = 1
                    /\ ~raised
                    /\ res.kind \in {"ok", "error"}

C14_Witness ==
    /\ req.name = "ask_llm"
    /\ req.llm = "raise"
    /\ llmResponse.provider = "gemini"
    /\ llmResponse.error = "SdkError"
    /\ llmResponse.content = ""
    /\ res.kind = "error"

\* C18: with a handle present, every invocation of scale_deployment that
\* has its three arguments makes exactly one scale_deployment call on the
\* gateway, also when the invocation before it was the same; nothing else
\* makes such a call.  So n invocations make n calls.
C18_NoDeduplication ==
    [][IF /\ req'.name = "scale_deployment"
          /\ cluster > 0
          /\ MissingKeys' = {}
       THEN /\ calls' = <<Call(cluster, "scale_deployment")>>
            /\ scaleCalls' = scaleCalls + 1
            /\ (req' = req => scaleCalls' >= 2)
       ELSE scaleCalls' = scaleCalls]_vars

C18_Witness ==
    /\ server = "main"
    /\ cluster > 0
    /\ req.name = "scale_deployment"
    /\ DOMAIN req.args = {"namespace", "deployment_name", "replicas"}
    /\ calls = <<Call(cluster, "scale_deployment")>>
    /\ scaleCalls = 2

----------------------------------------------------------------------------
(* Properties of the query classifier                                      *)

Processed == conversation_history # <<>>
LastRecord == conversation_history[Len(conversation_history)]

\* The lowered text has every literal of `all`, resp. one of `any`.
HasAll(lower, all) == \A k \in all : Contains(k, lower)
HasAny(lower, any) == \E k \in any : Contains(k, lower)

\* The text meets none of the keyword rules.
Unmatched ==
    LET lower == ToLower(query)
    IN  /\ ~HasAll(lower, {KwNamespace, KwList})
        /\ ~HasAll(lower, {KwPod, KwList})
        /\ ~HasAny(lower, {KwConnect, KwCluster, KwAi, KwLlm, KwHelp})

\* C7: every text is routed to exactly one tool and processing never
\* fails; a text that meets no keyword rule goes to ask_llm with the
\* whole original text as the question.
C7_Total ==
    Processed
        => /\ Len(conversation_history) = 1
           /\ LastRecord.user_query = query
           /\ LastRecord.tool_used \in
                 {"list_namespaces", "list_pods", "connect_cluster",
                  "ask_llm"}
           /\ Unmatched
                 => /\ LastRecord.tool_used = "ask_llm"
                    /\ sent.name = "ask_llm"
                    /\ "question" \in sent.keys
                    /\ sent.question = query

C7_Witness ==
    /\ Processed
    /\ query = QShowMeSomethingRandom
    /\ sent.name = "ask_llm"
    /\ sent.question = QShowMeSomethingRandom

\* C8: a text that contains "namespace" and "list", in any letter case,
\* goes to list_namespaces with no arguments, whatever else it contains.
C8_NamespaceFirst ==
    (Processed /\ HasAll(ToLower(query), {KwNamespace, KwList}))
        => /\ LastRecord.tool_used = "list_namespaces"
           /\ sent.name = "list_namespaces"
           /\ sent.keys = {}

C8_Witness ==
    /\ Processed
    /\ query = FrList \o FrPod \o FrNamespace
    /\ sent.name = "list_namespaces"

\* C9 as claimed: "list pods in production namespace" goes to list_pods
\* with namespace "production", "list pods in development namespace" to
\* list_pods with namespace "development".
C9_AsClaimed ==
    /\ (Processed /\ query = QListPodsInProductionNamespace)
          => (sent.name = "list_pods" /\ sent.namespace = "production")
    /\ (Processed /\ query = QListPodsInDevelopmentNamespace)
          => (sent.name = "list_pods" /\ sent.namespace = "development")

\* C10 as claimed: for a text routed to list_pods the namespace is
\* "production" if the text contains it, else "development" if the text
\* contains it, else "default".
C10_AsClaimed ==
    (Processed /\ sent.name = "list_pods")
        => sent.namespace =
              IF HasAny(ToLower(query), {KwProduction}) THEN "production"
              ELSE IF HasAny(ToLower(query), {KwDevelopment})
              THEN "development"
              ELSE "default"

\* The text meets the connect rule and neither list rule.
ConnectCase ==
    LET lower == ToLower(query)
    IN  /\ ~HasAll(lower, {KwNamespace, KwList})
        /\ ~HasAll(lower, {KwPod, KwList})
        /\ HasAny(lower, {KwConnect, KwCluster})

\* C11 as claimed: in every host, a text that meets neither list rule and
\* contains "connect" or "cluster" is routed to connect_cluster.
C11_AsClaimed ==
    (Processed /\ ConnectCase) => LastRecord.tool_used = "connect_cluster"

\* C11 amended: in the hosts that have a connect_cluster tool such a text
\* is routed to connect_cluster, also when it contains "ai", "llm" or
\* "help"; the call carries the URL and the token of the environment and
\* nothing of the text, and no call is made when the environment lacks
\* them.  final_working_host.py has no connect rule: there such a text goes
\* to ask_llm.
C11_ConnectRule ==
    (Processed /\ ConnectCase)
        => IF host = "final"
           THEN LastRecord.tool_used = "ask_llm" /\ sent.name = "ask_llm"
           ELSE /\ LastRecord.tool_used = "connect_cluster"
                /\ sent = IF hostCreds
                          THEN ToolCall("connect_cluster",
                                        {"cluster_url", "token",
                                         "verify_ssl"}, "", <<>>)
                          ELSE NoSent

C11_Witness ==
    /\ Processed
    /\ host = "real"
    /\ hostCreds
    /\ query = FrConnect \o FrHelp
    /\ LastRecord.tool_used = "connect_cluster"
    /\ sent.name = "connect_cluster"

\* C20 as claimed: each example of the client's help text goes to the tool
\* the help text names for it: "List all namespaces" to list_namespaces,
\* "Show pods in default namespace" and "List pods in production" to
\* list_pods, "Connect to cluster" to connect_cluster, "AI help with
\* troubleshooting" to ask_llm.
C20_AsClaimed ==
    (Processed /\ host = "real")
        => /\ query = QHelpListAllNamespaces
                 => LastRecord.tool_used = "list_namespaces"
           /\ query = QHelpShowPods => LastRecord.tool_used = "list_pods"
           /\ query = QHelpConnect
                 => LastRecord.tool_used = "connect_cluster"
           /\ query = QHelpListPodsInProduction
                 => LastRecord.tool_used = "list_pods"
           /\ query = QHelpAi => LastRecord.tool_used = "ask_llm"

----------------------------------------------------------------------------
(* Properties of the interactive loop                                      *)

\* C15 as claimed: in every host the history command succeeds; with k
\* records logged it shows the min(k, 5) latest in the order they were
\* logged, with none logged it says there is no history.
C15_AsClaimed ==
    lastInput.kind = "history"
        => LET k == Len(conversation_history)
               n == IF k < 5 THEN k ELSE 5
           IN  /\ lastInput.outcome = "ok"
               /\ IF k = 0 THEN shown.kind = "no_history"
                  ELSE /\ shown.kind = "listing"
                       /\ Len(shown.records) = n
                       /\ \A i \in 1..n :
                             shown.records[i] =
                                conversation_history[k - n + i]

\* C16: the log only grows at its end.  A free text adds exactly one
\* record, holding that text and the routed tool, or "error" when the
\* processing raised; help, history, status, quit/exit/q, an empty line
\* and every other input leave the log as it is.
C16_AppendOnly ==
    [][LET old == conversation_history
           new == conversation_history'
       IN  /\ Len(new) >= Len(old)
           /\ SubSeq(new, 1, Len(old)) = old
           /\ IF lastInput'.kind = "query"
              THEN /\ Len(new) = Len(old) + 1
                   /\ new[Len(new)].user_query = query'
                   /\ IF lastInput'.outcome = "raise"
                      THEN new[Len(new)].tool_used = "error"
                      ELSE new[Len(new)].tool_used \in
                              {"list_namespaces", "list_pods",
                               "connect_cluster", "ask_llm",
                               "intelligent_response",
                               "intelligent_cluster_analysis",
                               "get_troubleshooting_help", "get_pod_logs"}
              ELSE new = old]_vars

C16_Witness ==
    /\ host = "host_test_app"
    /\ Len(conversation_history) = 7
    /\ conversation_history[1].tool_used = "list_namespaces"
    /\ conversation_history[6].tool_used = "error"
    /\ conversation_history[7].tool_used = "get_troubleshooting_help"
    /\ lastInput.kind = "history"

\* C17: the loop ends only on quit, exit, q or a keyboard interrupt; after
\* an input whose processing failed (a tool error, an exception in
\* process_user_query, in a command or in input()) it reads the next
\* input.
C17_SessionSurvives ==
    [][/\ replState' \in {"reading", "exited"}
       /\ replState' = "exited"
            => \/ lastInput'.kind = "quit"
                  /\ lastInput'.word \in {"quit", "exit", "q"}
               \/ lastInput'.kind = "interrupt"
       /\ lastInput'.outcome # "ok" => replState' = "reading"]_vars

C17_Witness ==
    /\ host = "working_host_app"
    /\ lastInput.kind = "history"
    /\ lastInput.outcome = "raise"
    /\ conversation_history # <<>>
    /\ replState = "reading"

\* C23: a successful connect_cluster leaves a handle; with a handle, a
\* cluster tool is never answered "not connected", and the tool refused
\* before reaches the gateway when its arguments are complete; no
\* invocation of any tool takes the handle away.
C23_Recoverable ==
    [][/\ (req'.name = "connect_cluster" /\ res'.code = "connected")
            => cluster' # 0
       /\ cluster # 0 => cluster' # 0
       /\ (cluster # 0 /\ req'.name \in ClusterTools(server))
            => /\ res'.code # "not_connected"
               /\ refused' = refused
               /\ (req'.name = refused /\ MissingKeys' = {})
                     => calls' = <<Call(cluster, req'.name)>>]_vars

\* list_pods was refused, and now reaches the gateway through the handle
\* a connect_cluster made.
C23_Witness ==
    /\ refused = "list_pods"
    /\ req.name = "list_pods"
    /\ cluster = 1
    /\ calls = <<Call(1, "list_pods")>>
    /\ res.kind = "ok"

\* C26: a connect_cluster that fails, for a missing URL or token or for a
\* constructor that raises, leaves the global handle and the number of
\* handles as they were; the cluster tools after it go through the handle
\* that was there.
C26_FailedConnect ==
    [][/\ (req'.name = "connect_cluster" /\ res'.kind = "error")
            => (cluster' = cluster /\ handles' = handles)
       /\ (req.name = "connect_cluster" /\ res.kind = "error"
             /\ req'.name \in ClusterTools(server))
            => /\ \A i \in 1..Len(calls') : calls'[i].h = cluster
               /\ cluster = 0 => res'.code = "not_connected"
               /\ cluster # 0 => res'.code # "not_connected"]_vars

\* The constructor raised while a handle was in place.
C26_Witness ==
    /\ server = "main"
    /\ req.name = "connect_cluster"
    /\ res.kind = "error"
    /\ res.exc = "ApiException"
    /\ cluster = 1

\* C27: in every environment and after any requests, the default provider
\* is absent or a key of the providers map, the map and the default are
\* what setup made them, and the provider generate_response selected is a
\* key of the map.
C27_ManagerInvariant ==
    /\ [](server = "llm"
            => /\ default_provider \in providers \cup {None}
               /\ llmResponse.provider \in providers \cup {None, "none"}
               /\ llmResponse.provider = "none"
                     => (llmCalls = 0 /\ default_provider = None))
    /\ [][/\ providers' = providers
          /\ default_provider' = default_provider]_vars

\* The provider asked for is not configured and the default is taken.
C27_Witness ==
    /\ server = "llm"
    /\ providers = {"gemini", "claude"}
    /\ default_provider = "gemini"
    /\ req.name = "ask_llm"
    /\ Get(req.args, "provider") = "bogus"
    /\ llmResponse.provider = "gemini"
    /\ llmCalls = 1

----------------------------------------------------------------------------
(* Properties of the resource report                                       *)

\* C21 as claimed: on the main server, with a handle and a namespace
\* argument, when the gateway's get_resource_usage returns usage data
\* without an error key, the tool answers the resource-usage report, not an
\* error text.
C21_AsClaimed ==
    (/\ server = "main"
     /\ req.name = "get_resource_usage"
     /\ Has(req.args, "namespace")
     /\ req.api # "raise"
     /\ calls = <<Call(cluster, "get_resource_usage")>>)
        => (res.kind = "ok" /\ res.code = "report")

----------------------------------------------------------------------------
(* Properties of the gathering tools                                       *)

\* The last request's gathering met a cluster call that raised.
GatherRaised ==
    /\ req.name \in GatherTools
    /\ req.failing # None
    /\ calls # <<>>
    /\ calls[Len(calls)].op = req.failing

----------------------------------------------------------------------------
(* Properties of the MCP client                                            *)

C30_AsClaimed ==
    /\ is_connected => transport = "open"
    /\ (mcpOp.op = "execute_tool" /\ ~is_connected)
          => /\ toolResult =
                   ToolResult(FALSE, None, "Not connected to MCP server")
             /\ ~mcpOp.reached

----------------------------------------------------------------------------
(* Properties of get_resource_usage                                        *)

\* The sum of f[i] over the indices in S.
RECURSIVE SumOver(_, _)
SumOver(S, f) ==
    IF S = {} THEN 0
    ELSE LET i == CHOOSE j \in S : TRUE
         IN  f[i] + SumOver(S \ {i}, f)

\* Every quantity of every listed container parses.
AllParse ==
    \A i \in 1..Len(podList) : \A j \in 1..Len(podList[i]) :
        \A k \in UsageKeys : ContainerUsage(podList[i][j])[k].ok

----------------------------------------------------------------------------
(* Properties of the line-protocol clients                                 *)

\* C28 as claimed: the data execute_mcp_tool returns for a tool call is
\* the server's response to that request, never the response to an earlier
\* one.
C28_AsClaimed ==
    toolReply.success => toolReply.data = toolReply.request

\* C29 as claimed: when start_server returned True and the server it
\* found or started is alive, execute_mcp_tool does not fail with "Server
\* not running" or "Failed to send message".
C29_AsClaimed ==
    (/\ started = "True"
     /\ toolReply # NoReply
     /\ server_process = "alive" \/ (foreignServer /\ server_process = "none"))
        => toolReply.error \notin {"Server not running",
                                   "Failed to send message"}

----------------------------------------------------------------------------
(* Properties of the event loop                                            *)

\* C25: every gateway call of a tool invocation goes to the handle that
\* was the global `cluster` at the invocation's connected check, whatever
\* connect_cluster invocations of other requests take their turns while
\* it is in flight.
C25_HandleAtCheck ==
    \A t \in TaskIds : tasks[t].used \subseteq {tasks[t].checked}

\* A cluster tool that passed its check and called the gateway, after a
\* connect_cluster of another request installed a handle while it was in
\* flight.
C25_Witness ==
    \E t \in TaskIds :
        /\ tasks[t].state = "done"
        /\ tasks[t].overtaken
        /\ tasks[t].checked >= 1
        /\ tasks[t].used = {tasks[t].checked}

====
